---- MODULE Spec2Model ----
(***************************************************************************)
(* A state-machine model of the mirage-engine core: the ECS manager        *)
(* (src/ecs), the Model uniform buffer (src/rendering/model.rs), the       *)
(* LightManager (src/rendering/light.rs), the Renderer                     *)
(* (src/rendering/renderer.rs), the OrthographicCamera                     *)
(* (src/rendering/camera.rs), Material creation                            *)
(* (src/rendering/material.rs, texture.rs), Mesh::create_quad              *)
(* (src/rendering/mesh.rs), the SceneManager (src/scene) and the hosts'    *)
(* event loops (src/main.rs, src/ui/window.rs).                            *)
(*                                                                         *)
(* Numbers.  f32 quantities are modelled by integers: lengths and          *)
(* velocities in hundredths of a unit (so gravity -9.81 is -981), time     *)
(* steps in whole units, angles in quarter turns.  Rounding of f32         *)
(* arithmetic is modelled for the camera only, whose bounds are quotients. *)
(*                                                                         *)
(* Options.  Option<T> is a sequence of length at most one: None is <<>>   *)
(* and Some(x) is <<x>>.                                                   *)
(***************************************************************************)
EXTENDS Integers, Sequences, FiniteSets, TLC

None == <<>>
Some(x) == <<x>>
IsSome(o) == o # <<>>
Unwrap(o) == o[1]

(***************************************************************************)
(* Bounds of the model.                                                    *)
(***************************************************************************)
MaxEntities == 2      \* create_entity calls in one run
MaxTicks == 2         \* run_systems calls in one run
NumUuids == 2         \* size of the identifier space Uuid::new_v4 draws from

UuidSpace == 1..NumUuids
\* the delta_time values run_systems is called with
DeltaTimes == {1, 2}

(***************************************************************************)
(* glam vectors and the model matrix.                                      *)
(***************************************************************************)
V2Add(a, b) == <<a[1] + b[1], a[2] + b[2]>>
V2Scale(a, k) == <<a[1] * k, a[2] * k>>

\* cos and sin of an angle given in quarter turns
CosQ(r) == CASE r % 4 = 0 -> 1 [] r % 4 = 1 -> 0 [] r % 4 = 2 -> -1 [] OTHER -> 0
SinQ(r) == CASE r % 4 = 0 -> 0 [] r % 4 = 1 -> 1 [] r % 4 = 2 -> 0 [] OTHER -> -1

\* Quat::from_rotation_z: a rotation about Z, kept as its quarter turn 0..3
Quat_from_rotation_z(r) == r % 4
Quat_IDENTITY == 0

\* ModelTransform::default
ModelTransform_default ==
    [position |-> <<0, 0, 0>>, rotation |-> Quat_IDENTITY, scale |-> <<100, 100, 100>>]

\* ModelTransform::model_matrix: translation * rotation * scale, as the four
\* columns of Mat4::to_cols_array_2d.  Scale factors are in hundredths, so the
\* rotation-scale block is in hundredths and the translation column too.
model_matrix(t) ==
    LET c == CosQ(t.rotation)
        s == SinQ(t.rotation)
    IN  << <<t.scale[1] * c, t.scale[1] * s, 0, 0>>,
           <<(0 - t.scale[2]) * s, t.scale[2] * c, 0, 0>>,
           <<0, 0, t.scale[3], 0>>,
           <<t.position[1], t.position[2], t.position[3], 100>> >>

(***************************************************************************)
(* State.                                                                  *)
(***************************************************************************)
VARIABLES
    world,          \* EcsManager.world: live hecs entity -> its components
    next_entity,    \* the hecs allocator: the next entity World::spawn returns
    entity_map,     \* EcsManager.entity_map: Uuid -> Entity
    ticks,          \* number of run_systems calls made
    ret,            \* the last call of the ECS API: its name, arguments, result
    models,         \* the Models a host holds directly (a sequence of Model)
    arcs,           \* the Mesh and Material values behind the Arcs Models share
    model_ret,      \* the last call of the Model API, and the update_transform count
    light_manager,  \* Option<LightManager>
    light_gpu,      \* GPU objects the LightManager allocated, and its last call
    renderer,       \* Option<Renderer>: size, config, clear_color
    surface,        \* the wgpu Surface: applied configuration and status
    gpu_log,        \* what the Renderer asked of surface and queue, in order
    encoders,       \* command encoders handed out by begin_frame, not yet ended
    render_ret,     \* the last Renderer call (or surface event) and its result
    camera,         \* Option<OrthographicCamera>
    camera_ret,     \* the last call of the camera API and its arguments
    gpu_textures,   \* the textures the Device created: id -> size, format, texels
    materials,      \* the Materials a host created (a sequence of Material)
    material_ret,   \* the last call of the texture / material API
    event_loop,     \* winit's EventLoop: the program run, the place in the iteration
    control_flow,   \* winit's ControlFlow: "Poll" or "Exit"
    window_manager, \* Option<WindowManager>
    event_ret,      \* the event delivered last and what the events so far say
    meshes,         \* the Meshes a host created (a sequence of Mesh)
    mesh_ret,       \* the last call of the Mesh API and its arguments
    scene_manager,  \* the SceneManager: scenes (name -> scene), active_scene
    scene_ret       \* the last call of the SceneManager API and its result

ecsVars == <<world, next_entity, entity_map, ticks, ret>>
modelVars == <<models, arcs, model_ret>>
lightVars == <<light_manager, light_gpu>>
rendererVars == <<renderer, surface, gpu_log, encoders, render_ret>>
cameraVars == <<camera, camera_ret>>
materialVars == <<gpu_textures, materials, material_ret>>
eventVars == <<event_loop, control_flow, window_manager, event_ret>>
meshVars == <<meshes, mesh_ret>>
sceneVars == <<scene_manager, scene_ret>>

(***************************************************************************)
(* Model (src/rendering/model.rs).  A Model is its CPU transform and its   *)
(* uniform buffer: None for Model::new, the 4x4 matrix for a GPU-backed    *)
(* one.                                                                    *)
(***************************************************************************)
\* ModelUniform { model: m.to_cols_array_2d() } read in rows
ModelUniform_RowMajor(m) ==
    [k \in 1..16 |-> m[((k - 1) % 4) + 1][((k - 1) \div 4) + 1]]

\* ModelUniform { model: m.to_cols_array_2d() } seen through
\* bytemuck::cast_slice: the 16 scalars of the buffer, one column after the
\* other
ModelUniform(m) == m[1] \o m[2] \o m[3] \o m[4]

\* the mat4x4<f32> the shader reads from the buffer: four columns of four
ModelUniform_decode(bytes) ==
    <<SubSeq(bytes, 1, 4), SubSeq(bytes, 5, 8), SubSeq(bytes, 9, 12),
      SubSeq(bytes, 13, 16)>>

\* Model::new.  mesh and material are Arcs: keys of `arcs`.  buffer_writes
\* counts the Queue::write_buffer calls made on the Model's buffer.
Model_new(mesh, material, transform) ==
    [mesh |-> mesh, material |-> material, transform |-> transform,
     model_bind_group |-> None, model_buffer |-> None, buffer_writes |-> 0]

\* a bind group layout is modelled by its entries, a shader visibility by
\* the set of its stages
BindGroupLayoutEntry(binding, visibility, ty) ==
    [binding |-> binding, visibility |-> visibility, ty |-> ty]

\* Model::new_with_device: the buffer is created holding the model matrix;
\* the bind group binds it under a layout the Model creates for itself
Model_new_with_device(mesh, material, transform) ==
    LET model_bind_group_layout ==
            << BindGroupLayoutEntry(0, {"VERTEX"}, "UniformBuffer") >>
    IN  [mesh |-> mesh, material |-> material, transform |-> transform,
         model_bind_group |-> Some([layout |-> model_bind_group_layout,
                                    binding0 |-> "model_buffer"]),
         model_buffer |-> Some(ModelUniform(model_matrix(transform))),
         buffer_writes |-> 0]

\* Model::update_transform(&self, queue, transform): writes the matrix of
\* `transform` into the buffer when there is one.  The receiver is &self:
\* self.transform is not assigned.  Queue::write_buffer is modelled as
\* taking effect at once.
Model_update_transform(model, transform) ==
    IF IsSome(model.model_buffer)
    THEN [model EXCEPT !.model_buffer = Some(ModelUniform(model_matrix(transform))),
                       !.buffer_writes = @ + 1]
    ELSE model

(***************************************************************************)
(* Components (src/ecs/component.rs).                                      *)
(***************************************************************************)
\* RenderableComponent::from_parts: a GPU-backed Model at the default transform
RenderableComponent_from_parts(visible) ==
    [model |-> Model_new_with_device(1, 1, ModelTransform_default),
     visible |-> visible]

Transform2DComponent_default ==
    [position |-> <<0, 0>>, rotation |-> 0, scale |-> <<100, 100>>]

Transform3DComponent_default ==
    [position |-> <<0, 0, 0>>, rotation |-> Quat_IDENTITY, scale |-> <<100, 100, 100>>]

\* PhysicsComponent::new(velocity, angular_velocity, mass, use_gravity)
PhysicsComponent_new(velocity, angular_velocity, mass, use_gravity) ==
    [velocity |-> velocity, angular_velocity |-> angular_velocity,
     mass |-> mass, use_gravity |-> use_gravity]

\* An entity's components: each slot is an Option.
Bundle(t2, t3, ph, rn) ==
    [transform2d |-> t2, transform3d |-> t3, physics |-> ph, renderable |-> rn]

\* The component bundles create_entity is called with.
Transform2DInputs ==
    { Transform2DComponent_default,
      [position |-> <<100, 200>>, rotation |-> 1, scale |-> <<200, 300>>] }

Transform3DInputs ==
    { Transform3DComponent_default,
      [position |-> <<100, 200, 300>>, rotation |-> 1, scale |-> <<200, 100, 100>>] }

PhysicsInputs ==
    { PhysicsComponent_new(<<100, 0>>, 0, 100, FALSE),
      PhysicsComponent_new(<<100, 50>>, 1, 100, TRUE) }

Bundles ==
    { Bundle(None, None, None, None) }
    \cup { Bundle(Some(t), None, Some(p), None) :
              t \in Transform2DInputs \ {Transform2DComponent_default},
              p \in PhysicsInputs }
    \cup { Bundle(Some(Transform2DComponent_default), None,
                  Some(PhysicsComponent_new(<<100, 0>>, 1, 100, FALSE)),
                  Some(RenderableComponent_from_parts(TRUE))) }
    \cup { Bundle(None, Some(t), None, Some(RenderableComponent_from_parts(v))) :
              t \in Transform3DInputs \ {Transform3DComponent_default},
              v \in BOOLEAN }

(***************************************************************************)
(* Systems (src/ecs/system.rs), as functions on the world.                 *)
(***************************************************************************)
\* the gravity vector of physics_system, y component, in hundredths
GravityY == -981
Gravity == <<0, GravityY>>

\* get_render_queue: the placeholder returns None
get_render_queue == None

\* transform_system: every entity with Transform2D and Physics
transform_system(w, delta_time) ==
    [e \in DOMAIN w |->
        IF IsSome(w[e].transform2d) /\ IsSome(w[e].physics)
        THEN LET transform == Unwrap(w[e].transform2d)
                 physics == Unwrap(w[e].physics)
             IN  [w[e] EXCEPT !.transform2d = Some(
                    [transform EXCEPT
                       !.position = V2Add(@, V2Scale(physics.velocity, delta_time)),
                       !.rotation = @ + physics.angular_velocity * delta_time])]
        ELSE w[e]]

\* physics_system applying gravity without testing use_gravity
physics_system_IgnoresUseGravity(w, delta_time) ==
    [e \in DOMAIN w |->
        IF IsSome(w[e].physics)
        THEN [w[e] EXCEPT !.physics = Some(
                [Unwrap(w[e].physics) EXCEPT
                   !.velocity = V2Add(@, V2Scale(Gravity, delta_time))])]
        ELSE w[e]]

\* physics_system: every entity with Physics
physics_system(w, delta_time) ==
    [e \in DOMAIN w |->
        IF IsSome(w[e].physics) /\ Unwrap(w[e].physics).use_gravity
        THEN [w[e] EXCEPT !.physics = Some(
                [Unwrap(w[e].physics) EXCEPT
                   !.velocity = V2Add(@, V2Scale(Gravity, delta_time))])]
        ELSE w[e]]

\* the 2D -> 3D conversion of rendering_system's first loop
Transform2DTo3D(transform) ==
    [position |-> <<transform.position[1], transform.position[2], 0>>,
     rotation |-> Quat_from_rotation_z(transform.rotation),
     scale |-> <<transform.scale[1], transform.scale[2], 100>>]

\* the conversion of rendering_system's second loop
Transform3DTo3D(transform) ==
    [position |-> transform.position, rotation |-> transform.rotation,
     scale |-> transform.scale]

\* the values `get_render_queue()` can be bound to in the loop bodies
RenderQueues == {None, Some("queue")}

\* the loop body without the `if renderable.visible` test
SyncRenderableWithQueue_IgnoresVisible(queue, renderable, transform_3d) ==
    IF IsSome(queue)
    THEN [renderable EXCEPT !.model = Model_update_transform(@, transform_3d)]
    ELSE renderable

\* one loop body of rendering_system, `queue` being what get_render_queue()
\* returned: the Model is updated only when the entity is visible and a
\* queue is reachable
SyncRenderableWithQueue(queue, renderable, transform_3d) ==
    IF renderable.visible /\ IsSome(queue)
    THEN [renderable EXCEPT !.model = Model_update_transform(@, transform_3d)]
    ELSE renderable

\* the loop body with the queue the code obtains
SyncRenderable(renderable, transform_3d) ==
    SyncRenderableWithQueue(get_render_queue, renderable, transform_3d)

\* rendering_system for a given result of get_render_queue(): the loop over
\* (Transform2D, Renderable), then the loop over (Transform3D, Renderable)
rendering_system_with_queue(w, queue) ==
    LET after2d == [e \in DOMAIN w |->
            IF IsSome(w[e].transform2d) /\ IsSome(w[e].renderable)
            THEN [w[e] EXCEPT !.renderable = Some(SyncRenderableWithQueue(queue,
                    Unwrap(w[e].renderable), Transform2DTo3D(Unwrap(w[e].transform2d))))]
            ELSE w[e]]
    IN  [e \in DOMAIN w |->
            IF IsSome(after2d[e].transform3d) /\ IsSome(after2d[e].renderable)
            THEN [after2d[e] EXCEPT !.renderable = Some(SyncRenderableWithQueue(queue,
                    Unwrap(after2d[e].renderable),
                    Transform3DTo3D(Unwrap(after2d[e].transform3d))))]
            ELSE after2d[e]]

\* rendering_system storing the converted transform on the entity
rendering_system_StoresTransform(w) ==
    [e \in DOMAIN w |->
        IF IsSome(w[e].transform2d) /\ IsSome(w[e].renderable)
        THEN [w[e] EXCEPT !.transform3d = Some(Transform2DTo3D(Unwrap(w[e].transform2d)))]
        ELSE w[e]]

\* rendering_system
rendering_system(w) == rendering_system_with_queue(w, get_render_queue)

(***************************************************************************)
(* EcsManager (src/ecs/mod.rs).                                            *)
(***************************************************************************)
\* Uuid::new_v4: any identifier of the space
Uuid_new_v4 == UuidSpace

\* HashMap::insert / HashMap::remove on entity_map
MapInsert(m, k, v) == [x \in DOMAIN m \cup {k} |-> IF x = k THEN v ELSE m[x]]
MapRemove(m, k) == [x \in DOMAIN m \ {k} |-> m[x]]

\* EcsManager::get_entity
get_entity(handle) ==
    IF handle \in DOMAIN entity_map THEN Some(entity_map[handle]) ELSE None

Call(op, handle, result, dt) ==
    [op |-> op, handle |-> handle, result |-> result, dt |-> dt]

\* EcsManager::new
EcsInit ==
    /\ world = [e \in {} |-> Bundle(None, None, None, None)]
    /\ next_entity = 0
    /\ entity_map = [u \in {} |-> 0]
    /\ ticks = 0
    /\ ret = Call("new", 0, FALSE, 0)

\* EcsManager::create_entity(components)
create_entity(components, uuid) ==
    /\ next_entity < MaxEntities
    /\ world' = MapInsert(world, next_entity, components)
    /\ next_entity' = next_entity + 1
    /\ entity_map' = MapInsert(entity_map, uuid, next_entity)
    /\ ret' = Call("create_entity", uuid, TRUE, 0)
    /\ UNCHANGED ticks

\* destroy_entity looking the handle up without removing it from the map
destroy_entity_KeepsMapping(handle) ==
    /\ IF handle \in DOMAIN entity_map
       THEN /\ world' = MapRemove(world, entity_map[handle])
            /\ ret' = Call("destroy_entity", handle,
                           entity_map[handle] \in DOMAIN world, 0)
            /\ UNCHANGED entity_map
       ELSE /\ ret' = Call("destroy_entity", handle, FALSE, 0)
            /\ UNCHANGED <<world, entity_map>>
    /\ UNCHANGED <<next_entity, ticks>>

\* destroy_entity reporting success whether or not the handle was known
destroy_entity_AlwaysTrue(handle) ==
    /\ IF handle \in DOMAIN entity_map
       THEN /\ entity_map' = MapRemove(entity_map, handle)
            /\ world' = MapRemove(world, entity_map[handle])
       ELSE UNCHANGED <<world, entity_map>>
    /\ ret' = Call("destroy_entity", handle, TRUE, 0)
    /\ UNCHANGED <<next_entity, ticks>>

\* EcsManager::destroy_entity(handle): World::despawn is Ok exactly when the
\* entity is alive
destroy_entity(handle) ==
    /\ IF handle \in DOMAIN entity_map
       THEN /\ entity_map' = MapRemove(entity_map, handle)
            /\ world' = MapRemove(world, entity_map[handle])
            /\ ret' = Call("destroy_entity", handle,
                           entity_map[handle] \in DOMAIN world, 0)
       ELSE /\ ret' = Call("destroy_entity", handle, FALSE, 0)
            /\ UNCHANGED <<world, entity_map>>
    /\ UNCHANGED <<next_entity, ticks>>

\* EcsManager::run_systems(delta_time): transform, physics, rendering
run_systems(delta_time) ==
    /\ ticks < MaxTicks
    /\ world' = rendering_system(
                    physics_system(transform_system(world, delta_time), delta_time))
    /\ ticks' = ticks + 1
    /\ ret' = Call("run_systems", 0, FALSE, delta_time)
    /\ UNCHANGED <<next_entity, entity_map>>

CreateEntity ==
    /\ \E c \in Bundles, u \in Uuid_new_v4 : create_entity(c, u)
    /\ UNCHANGED <<modelVars, lightVars, rendererVars, cameraVars, materialVars, eventVars, meshVars, sceneVars>>

DestroyEntity ==
    /\ \E h \in UuidSpace : destroy_entity(h)
    /\ UNCHANGED <<modelVars, lightVars, rendererVars, cameraVars, materialVars, eventVars, meshVars, sceneVars>>

RunSystems ==
    /\ \E dt \in DeltaTimes : run_systems(dt)
    /\ UNCHANGED <<modelVars, lightVars, rendererVars, cameraVars, materialVars, eventVars, meshVars, sceneVars>>

EcsNext ==
    \/ CreateEntity
    \/ DestroyEntity
    \/ RunSystems

(***************************************************************************)
(* Models held by a host (src/rendering/model.rs).                         *)
(***************************************************************************)
MaxModels == 2

ModelTransformInputs ==
    { ModelTransform_default,
      [position |-> <<100, 200, 300>>, rotation |-> Quat_IDENTITY,
       scale |-> <<100, 100, 100>>],
      [position |-> <<0, 0, 0>>, rotation |-> 1, scale |-> <<200, 300, 100>>] }

MaxModelUpdates == 2   \* update_transform calls in one run

\* the (mesh, material, transform) arguments Models are constructed with:
\* Models sharing both Arcs, sharing one, and with different transforms
ModelArgs ==
    { <<1, 1, ModelTransform_default>>,
      <<1, 1, [position |-> <<100, 200, 300>>, rotation |-> Quat_IDENTITY,
               scale |-> <<100, 100, 100>>]>>,
      <<2, 1, [position |-> <<0, 0, 0>>, rotation |-> 1,
               scale |-> <<200, 300, 100>>]>> }

ModelCall(op, index, transform, updates) ==
    [op |-> op, index |-> index, transform |-> transform, updates |-> updates]

\* the host holds two meshes and one material behind Arcs, and no Model yet
ModelsInit ==
    /\ models = <<>>
    /\ arcs = [mesh |-> <<[name |-> "Quad", num_indices |-> 6],
                          [name |-> "Triangle", num_indices |-> 3]>>,
               material |-> <<[name |-> "Default"]>>]
    /\ model_ret = ModelCall("none", 0, ModelTransform_default, 0)

NewModel ==
    /\ Len(models) < MaxModels
    /\ \E a \in ModelArgs :
          /\ models' = Append(models, Model_new(a[1], a[2], a[3]))
          /\ model_ret' = ModelCall("new", Len(models) + 1, a[3], model_ret.updates)
    /\ UNCHANGED arcs
    /\ UNCHANGED <<ecsVars, lightVars, rendererVars, cameraVars, materialVars, eventVars, meshVars, sceneVars>>

NewModelWithDevice ==
    /\ Len(models) < MaxModels
    /\ \E a \in ModelArgs :
          /\ models' = Append(models, Model_new_with_device(a[1], a[2], a[3]))
          /\ model_ret' = ModelCall("new_with_device", Len(models) + 1, a[3],
                                    model_ret.updates)
    /\ UNCHANGED arcs
    /\ UNCHANGED <<ecsVars, lightVars, rendererVars, cameraVars, materialVars, eventVars, meshVars, sceneVars>>

\* update_transform writing the buffer of every Model that shares the
\* Material, as if the uniform buffer belonged to the Material
UpdateTransform_PerMaterial ==
    /\ model_ret.updates < MaxModelUpdates
    /\ \E i \in 1..Len(models), t \in ModelTransformInputs :
          /\ models' = [j \in 1..Len(models) |->
                           IF models[j].material = models[i].material
                           THEN Model_update_transform(models[j], t)
                           ELSE models[j]]
          /\ model_ret' = ModelCall("update_transform", i, t, model_ret.updates + 1)
    /\ UNCHANGED arcs
    /\ UNCHANGED <<ecsVars, lightVars, rendererVars, cameraVars, materialVars, eventVars, meshVars, sceneVars>>

UpdateTransform ==
    /\ model_ret.updates < MaxModelUpdates
    /\ \E i \in 1..Len(models), t \in ModelTransformInputs :
          /\ models' = [models EXCEPT ![i] = Model_update_transform(@, t)]
          /\ model_ret' = ModelCall("update_transform", i, t, model_ret.updates + 1)
    /\ UNCHANGED arcs
    /\ UNCHANGED <<ecsVars, lightVars, rendererVars, cameraVars, materialVars, eventVars, meshVars, sceneVars>>

ModelNext ==
    \/ NewModel
    \/ NewModelWithDevice
    \/ UpdateTransform

(***************************************************************************)
(* Lights (src/rendering/light.rs).                                        *)
(***************************************************************************)
MaxLightCapacity == 2   \* max_lights is drawn from 0..MaxLightCapacity
MaxInits == 2           \* initialize calls in one run
MaxUpdates == 2         \* update calls in one run

LightType_Directional == 0
LightType_Point == 1

Sign(x) == IF x > 0 THEN 1 ELSE IF x < 0 THEN -1 ELSE 0

\* Vec3::normalize, for a vector along one axis (the only ones drawn here)
Vec3_normalize(v) == <<100 * Sign(v[1]), 100 * Sign(v[2]), 100 * Sign(v[3])>>

\* DirectionalLight::new
DirectionalLight_new(direction, color, intensity) ==
    [kind |-> "DirectionalLight", direction |-> Vec3_normalize(direction),
     color |-> color, intensity |-> intensity]

\* PointLight::new
PointLight_new(position, color, intensity, range) ==
    [kind |-> "PointLight", position |-> position, color |-> color,
     intensity |-> intensity, range |-> range]

LightData(position, light_type, color, intensity, direction, range) ==
    [position |-> position, light_type |-> light_type, color |-> color,
     intensity |-> intensity, direction |-> direction, range |-> range]

\* Light::get_light_data of DirectionalLight and of PointLight
get_light_data(light) ==
    IF light.kind = "DirectionalLight"
    THEN LightData(<<0, 0, 0>>, LightType_Directional, light.color,
                   light.intensity, light.direction, 0)
    ELSE LightData(light.position, LightType_Point, light.color,
                   light.intensity, <<0, 0, 0>>, light.range)

\* the record update pads with
EmptyLightData == LightData(<<0, 0, 0>>, 0, <<0, 0, 0>>, 0, <<0, 0, 0>>, 0)

LightInputs ==
    { DirectionalLight_new(<<0, -200, 0>>, <<100, 100, 100>>, 100),
      PointLight_new(<<100, 200, 300>>, <<100, 0, 0>>, 150, 1000) }

\* a wgpu Buffer: its identity, its content, the data of the last
\* write_buffer and the number of write_buffer calls on it
Buffer(id, data) == [id |-> id, data |-> data, written |-> <<>>, writes |-> 0]

\* Queue::write_buffer(buffer, 0, data), data no longer than the buffer
write_buffer(buffer, data) ==
    [buffer EXCEPT !.data = data \o SubSeq(@, Len(data) + 1, Len(@)),
                   !.written = data,
                   !.writes = @ + 1]

\* LightManager::new
LightManager_new(max_lights) ==
    [lights |-> <<>>, light_buffer |-> None, light_bind_group |-> None,
     light_bind_group_layout |-> None, light_count_buffer |-> None,
     max_lights |-> max_lights]

\* add_light with the capacity test off by one
LightManager_add_light_OffByOne(lm, light) ==
    IF Len(lm.lights) <= lm.max_lights
    THEN [lm EXCEPT !.lights = Append(@, light)]
    ELSE lm

\* LightManager::add_light
LightManager_add_light(lm, light) ==
    IF Len(lm.lights) < lm.max_lights
    THEN [lm EXCEPT !.lights = Append(@, light)]
    ELSE lm

\* LightManager::light_count
LightManager_light_count(lm) == Len(lm.lights)

\* LightManager::initialize(device): four new GPU objects, numbered from
\* first_id; create_buffer zero-fills, create_buffer_init copies the count
LightManager_initialize(lm, first_id) ==
    LET light_buffer == Buffer(first_id, [i \in 1..lm.max_lights |-> EmptyLightData])
        light_count_buffer == Buffer(first_id + 1, <<Len(lm.lights)>>)
        light_bind_group_layout == first_id + 2
        light_bind_group == [id |-> first_id + 3, layout |-> light_bind_group_layout,
                             binding0 |-> light_buffer.id,
                             binding1 |-> light_count_buffer.id]
    IN  [lm EXCEPT !.light_buffer = Some(light_buffer),
                   !.light_bind_group_layout = Some(light_bind_group_layout),
                   !.light_bind_group = Some(light_bind_group),
                   !.light_count_buffer = Some(light_count_buffer)]

\* the padding loop of update
PadLightData(light_data, max_lights) ==
    IF Len(light_data) < max_lights
    THEN light_data \o [i \in 1..(max_lights - Len(light_data)) |-> EmptyLightData]
    ELSE light_data

\* update writing the light buffer and leaving the count buffer alone
LightManager_update_SkipsCount(lm) ==
    IF IsSome(lm.light_buffer)
    THEN LET light_data ==
                 PadLightData([i \in 1..Len(lm.lights) |-> get_light_data(lm.lights[i])],
                              lm.max_lights)
         IN  [lm EXCEPT !.light_buffer = Some(write_buffer(Unwrap(@), light_data))]
    ELSE lm

\* update without the padding loop
LightManager_update_NoPadding(lm) ==
    IF IsSome(lm.light_buffer)
    THEN LET light_data == [i \in 1..Len(lm.lights) |-> get_light_data(lm.lights[i])]
             lm1 == [lm EXCEPT !.light_buffer =
                        Some(write_buffer(Unwrap(@), light_data))]
         IN  IF IsSome(lm1.light_count_buffer)
             THEN [lm1 EXCEPT !.light_count_buffer =
                      Some(write_buffer(Unwrap(@), <<Len(lm.lights)>>))]
             ELSE lm1
    ELSE lm

\* LightManager::update(queue)
LightManager_update(lm) ==
    IF IsSome(lm.light_buffer)
    THEN LET light_data ==
                 PadLightData([i \in 1..Len(lm.lights) |-> get_light_data(lm.lights[i])],
                              lm.max_lights)
             lm1 == [lm EXCEPT !.light_buffer =
                        Some(write_buffer(Unwrap(@), light_data))]
         IN  IF IsSome(lm1.light_count_buffer)
             THEN [lm1 EXCEPT !.light_count_buffer =
                      Some(write_buffer(Unwrap(@), <<Len(lm.lights)>>))]
             ELSE lm1
    ELSE lm

LightCall(op, light) == [op |-> op, light |-> light]

LightInit ==
    /\ light_manager = None
    /\ light_gpu = [objects |-> 0, inits |-> 0, updates |-> 0,
                    last |-> LightCall("none", None)]

NewLightManager ==
    /\ light_manager = None
    /\ \E n \in 0..MaxLightCapacity : light_manager' = Some(LightManager_new(n))
    /\ light_gpu' = [light_gpu EXCEPT !.last = LightCall("new", None)]
    /\ UNCHANGED <<ecsVars, modelVars, rendererVars, cameraVars, materialVars, eventVars, meshVars, sceneVars>>

AddLight ==
    /\ IsSome(light_manager)
    /\ \E light \in LightInputs :
          /\ light_manager' = Some(LightManager_add_light(Unwrap(light_manager), light))
          /\ light_gpu' = [light_gpu EXCEPT !.last = LightCall("add_light", Some(light))]
    /\ UNCHANGED <<ecsVars, modelVars, rendererVars, cameraVars, materialVars, eventVars, meshVars, sceneVars>>

InitializeLights ==
    /\ IsSome(light_manager)
    /\ light_gpu.inits < MaxInits
    /\ light_manager' =
          Some(LightManager_initialize(Unwrap(light_manager), light_gpu.objects + 1))
    /\ light_gpu' = [light_gpu EXCEPT !.objects = @ + 4, !.inits = @ + 1,
                                      !.last = LightCall("initialize", None)]
    /\ UNCHANGED <<ecsVars, modelVars, rendererVars, cameraVars, materialVars, eventVars, meshVars, sceneVars>>

UpdateLights ==
    /\ IsSome(light_manager)
    /\ light_gpu.updates < MaxUpdates
    /\ light_manager' = Some(LightManager_update(Unwrap(light_manager)))
    /\ light_gpu' = [light_gpu EXCEPT !.updates = @ + 1,
                                      !.last = LightCall("update", None)]
    /\ UNCHANGED <<ecsVars, modelVars, rendererVars, cameraVars, materialVars, eventVars, meshVars, sceneVars>>

LightNext ==
    \/ NewLightManager
    \/ AddLight
    \/ InitializeLights
    \/ UpdateLights

(***************************************************************************)
(* Renderer (src/rendering/renderer.rs).                                   *)
(*                                                                         *)
(* The wgpu Surface is its applied configuration, the number of configure  *)
(* calls, and a status: Good, or the SurfaceError get_current_texture      *)
(* returns (Lost, Outdated) until the surface is configured again.         *)
(* gpu_log lists, in order, what the Renderer asked of the surface, the    *)
(* device and the queue.                                                   *)
(***************************************************************************)
MaxConfigures == 2    \* Surface::configure calls in one run
MaxFrames == 2        \* swapchain images acquired in one run

\* the widths and heights resize is called with
Dims == {0, 1, 2}

\* the clear colour Renderer::new stores (0.1, 0.2, 0.3, 1.0), in hundredths
DefaultClearColor == <<10, 20, 30, 100>>
ClearColorInputs == { <<0, 0, 0, 100>>, <<100, 100, 100, 100>> }

RenderCall(op, args, result, surface_error) ==
    [op |-> op, args |-> args, result |-> result, surface_error |-> surface_error]

RendererInit ==
    /\ renderer = None
    /\ surface = [config |-> None, configures |-> 0, status |-> "Good"]
    /\ gpu_log = <<>>
    /\ encoders = {}
    /\ render_ret = RenderCall("none", <<>>, "Ok", "None")

\* Surface::configure(device, config): a surface that was lost or outdated
\* is good again, one whose device is out of memory stays so
Surface_configure(s, config) ==
    [config |-> Some(config), configures |-> s.configures + 1,
     status |-> IF s.status = "OutOfMemory" THEN "OutOfMemory" ELSE "Good"]

\* the number of swapchain images acquired so far
Acquired == Cardinality({k \in 1..Len(gpu_log) : gpu_log[k][1] = "acquire"})

\* Renderer::new(window): the surface is configured at the window's size
Renderer_new(width, height) ==
    /\ renderer = None
    /\ LET config == [width |-> width, height |-> height]
       IN  /\ surface' = Surface_configure(surface, config)
           /\ renderer' = Some([size |-> <<width, height>>, config |-> config,
                                clear_color |-> DefaultClearColor])
    /\ render_ret' = RenderCall("new", <<width, height>>, "Ok", "None")
    /\ UNCHANGED <<gpu_log, encoders>>

\* Renderer::size
Renderer_size == Unwrap(renderer).size

\* Renderer::set_clear_color
Renderer_set_clear_color(color) ==
    /\ IsSome(renderer)
    /\ renderer' = Some([Unwrap(renderer) EXCEPT !.clear_color = color])
    /\ render_ret' = RenderCall("set_clear_color", color, "Ok", "None")
    /\ UNCHANGED <<surface, gpu_log, encoders>>

\* resize accepting a size with one zero dimension
Renderer_resize_EitherPositive(width, height) ==
    /\ IsSome(renderer)
    /\ IF width > 0 \/ height > 0
       THEN LET config == [Unwrap(renderer).config EXCEPT
                              !.width = width, !.height = height]
            IN  /\ surface.configures < MaxConfigures
                /\ renderer' = Some([Unwrap(renderer) EXCEPT
                                        !.size = <<width, height>>,
                                        !.config = config])
                /\ surface' = Surface_configure(surface, config)
       ELSE UNCHANGED <<renderer, surface>>
    /\ render_ret' = RenderCall("resize", <<width, height>>, "Ok", "None")
    /\ UNCHANGED <<gpu_log, encoders>>

\* resize storing the size without touching the configuration
Renderer_resize_SizeOnly(width, height) ==
    /\ IsSome(renderer)
    /\ IF width > 0 /\ height > 0
       THEN /\ surface.configures < MaxConfigures
            /\ renderer' = Some([Unwrap(renderer) EXCEPT !.size = <<width, height>>])
            /\ surface' = Surface_configure(surface, Unwrap(renderer).config)
       ELSE UNCHANGED <<renderer, surface>>
    /\ render_ret' = RenderCall("resize", <<width, height>>, "Ok", "None")
    /\ UNCHANGED <<gpu_log, encoders>>

\* Renderer::resize(width, height)
Renderer_resize(width, height) ==
    /\ IsSome(renderer)
    /\ IF width > 0 /\ height > 0
       THEN LET config == [Unwrap(renderer).config EXCEPT
                              !.width = width, !.height = height]
            IN  /\ surface.configures < MaxConfigures
                /\ renderer' = Some([Unwrap(renderer) EXCEPT
                                        !.size = <<width, height>>,
                                        !.config = config])
                /\ surface' = Surface_configure(surface, config)
       ELSE UNCHANGED <<renderer, surface>>
    /\ render_ret' = RenderCall("resize", <<width, height>>, "Ok", "None")
    /\ UNCHANGED <<gpu_log, encoders>>

\* Renderer::begin_frame: get_current_texture()?, create_view,
\* create_command_encoder; `output` goes out of scope at the return, and a
\* SurfaceTexture dropped without present() is discarded
Renderer_begin_frame ==
    /\ IsSome(renderer)
    /\ IF surface.status = "Good"
       THEN LET image == Acquired + 1
            IN  /\ Acquired < MaxFrames
                /\ gpu_log' = gpu_log \o << <<"acquire", image>>,
                                            <<"create_view", image>>,
                                            <<"create_encoder", image>>,
                                            <<"discard", image>> >>
                /\ encoders' = encoders \cup {image}
                /\ render_ret' = RenderCall("begin_frame", <<>>, "Ok", "None")
       ELSE /\ render_ret' = RenderCall("begin_frame", <<>>, "Err", surface.status)
            /\ UNCHANGED <<gpu_log, encoders>>
    /\ UNCHANGED <<renderer, surface>>

\* Renderer::end_frame(encoder): queue.submit(encoder.finish())
Renderer_end_frame(encoder) ==
    /\ IsSome(renderer)
    /\ encoder \in encoders
    /\ gpu_log' = Append(gpu_log, <<"submit", encoder>>)
    /\ encoders' = encoders \ {encoder}
    /\ render_ret' = RenderCall("end_frame", <<encoder>>, "Ok", "None")
    /\ UNCHANGED <<renderer, surface>>

\* render_frame clearing to the construction default
Renderer_render_frame_DefaultColor ==
    /\ IsSome(renderer)
    /\ IF surface.status = "Good"
       THEN LET image == Acquired + 1
            IN  /\ Acquired < MaxFrames
                /\ gpu_log' = gpu_log \o << <<"acquire", image>>,
                                            <<"create_view", image>>,
                                            <<"create_encoder", image>>,
                                            <<"clear", image, DefaultClearColor>>,
                                            <<"submit", image>>,
                                            <<"present", image>> >>
                /\ render_ret' = RenderCall("render_frame", <<>>, "Ok", "None")
       ELSE /\ render_ret' = RenderCall("render_frame", <<>>, "Err", surface.status)
            /\ UNCHANGED gpu_log
    /\ UNCHANGED <<renderer, surface, encoders>>

\* Renderer::render_frame
Renderer_render_frame ==
    /\ IsSome(renderer)
    /\ IF surface.status = "Good"
       THEN LET image == Acquired + 1
            IN  /\ Acquired < MaxFrames
                /\ gpu_log' = gpu_log \o << <<"acquire", image>>,
                                            <<"create_view", image>>,
                                            <<"create_encoder", image>>,
                                            <<"clear", image, Unwrap(renderer).clear_color>>,
                                            <<"submit", image>>,
                                            <<"present", image>> >>
                /\ render_ret' = RenderCall("render_frame", <<>>, "Ok", "None")
       ELSE /\ render_ret' = RenderCall("render_frame", <<>>, "Err", surface.status)
            /\ UNCHANGED gpu_log
    /\ UNCHANGED <<renderer, surface, encoders>>

\* the window system invalidates the surface
SurfaceInvalidated ==
    /\ IsSome(renderer)
    /\ surface.status = "Good"
    /\ \E e \in {"Lost", "Outdated"} :
          /\ surface' = [surface EXCEPT !.status = e]
          /\ render_ret' = RenderCall("surface_invalidated", <<e>>, "Ok", "None")
    /\ UNCHANGED <<renderer, gpu_log, encoders>>
    /\ UNCHANGED <<ecsVars, modelVars, lightVars, cameraVars, materialVars, eventVars, meshVars, sceneVars>>

NewRenderer ==
    /\ \E w \in Dims \ {0}, h \in Dims \ {0} : Renderer_new(w, h)
    /\ UNCHANGED <<ecsVars, modelVars, lightVars, cameraVars, materialVars, eventVars, meshVars, sceneVars>>

SetClearColor ==
    /\ \E c \in ClearColorInputs : Renderer_set_clear_color(c)
    /\ UNCHANGED <<ecsVars, modelVars, lightVars, cameraVars, materialVars, eventVars, meshVars, sceneVars>>

Resize ==
    /\ \E w \in Dims, h \in Dims : Renderer_resize(w, h)
    /\ UNCHANGED <<ecsVars, modelVars, lightVars, cameraVars, materialVars, eventVars, meshVars, sceneVars>>

BeginFrame ==
    /\ Renderer_begin_frame
    /\ UNCHANGED <<ecsVars, modelVars, lightVars, cameraVars, materialVars, eventVars, meshVars, sceneVars>>

EndFrame ==
    /\ \E e \in encoders : Renderer_end_frame(e)
    /\ UNCHANGED <<ecsVars, modelVars, lightVars, cameraVars, materialVars, eventVars, meshVars, sceneVars>>

RenderFrame ==
    /\ Renderer_render_frame
    /\ UNCHANGED <<ecsVars, modelVars, lightVars, cameraVars, materialVars, eventVars, meshVars, sceneVars>>

RendererNext ==
    \/ NewRenderer
    \/ SetClearColor
    \/ Resize
    \/ BeginFrame
    \/ EndFrame
    \/ RenderFrame
    \/ SurfaceInvalidated

(***************************************************************************)
(* OrthographicCamera (src/rendering/camera.rs).                           *)
(*                                                                         *)
(* The camera computes in f32.  A value is modelled as a whole number of   *)
(* hundredths, the least positive value of the format; a product or a      *)
(* quotient is rounded to the nearest value of the format, so a quotient   *)
(* smaller than half the least positive value is 0, as an f32 quotient     *)
(* below half the least subnormal is.                                      *)
(***************************************************************************)
Abs(x) == IF x < 0 THEN 0 - x ELSE x

\* a * b in f32
F32Mul(a, b) ==
    LET n == Abs(a) * Abs(b)
        q == (n + 50) \div 100
    IN  IF (a < 0) # (b < 0) THEN 0 - q ELSE q

\* a / b in f32, b # 0
F32Div(a, b) ==
    LET n == 100 * Abs(a)
        d == Abs(b)
        q == (2 * n + d) \div (2 * d)
    IN  IF (a < 0) # (b < 0) THEN 0 - q ELSE q

\* f32::max
F32Max(a, b) == IF a >= b THEN a ELSE b

\* the minimum zoom of set_zoom, 0.1
ZoomMin == 10

\* the (width, height) the camera is built and resized with, the near and
\* far planes, and the zoom values set_zoom is called with
CameraSizes == { <<800, 600>>, <<200, 400>> }
CameraNear == -100
CameraFar == 100
ZoomInputs == { -100, 0, 5, 50, 100, 200, 100000 }

\* OrthographicCamera::new
OrthographicCamera_new(width, height, near, far) ==
    LET aspect_ratio == F32Div(width, height)
        zoom == 100
        half_height == F32Div(height, 200)
        half_width == F32Div(width, 200)
    IN  [position |-> <<0, 0>>, zoom |-> zoom, rotation |-> 0,
         aspect_ratio |-> aspect_ratio, near |-> near, far |-> far,
         left |-> 0 - half_width, right |-> half_width,
         bottom |-> 0 - half_height, top |-> half_height]

\* set_zoom storing its argument as it is
OrthographicCamera_set_zoom_NoClamp(c, zoom) == [c EXCEPT !.zoom = zoom]

\* OrthographicCamera::set_zoom
OrthographicCamera_set_zoom(c, zoom) == [c EXCEPT !.zoom = F32Max(zoom, ZoomMin)]

\* OrthographicCamera::zoom
OrthographicCamera_zoom(c) == c.zoom

\* OrthographicCamera::resize
OrthographicCamera_resize(c, width, height) ==
    LET half_height == F32Div(height, F32Mul(200, c.zoom))
        half_width == F32Div(width, F32Mul(200, c.zoom))
    IN  [c EXCEPT !.aspect_ratio = F32Div(width, height),
                  !.left = 0 - half_width,
                  !.right = half_width,
                  !.bottom = 0 - half_height,
                  !.top = half_height]

\* Camera::projection_matrix for OrthographicCamera: the bounds and planes
\* it hands to Mat4::orthographic_rh
projection_matrix(c) ==
    [left |-> F32Div(c.left, c.zoom), right |-> F32Div(c.right, c.zoom),
     bottom |-> F32Div(c.bottom, c.zoom), top |-> F32Div(c.top, c.zoom),
     near |-> c.near, far |-> c.far]

\* a call, its arguments, and the largest zoom the camera has had so far
CameraCall(op, args, peak_zoom) == [op |-> op, args |-> args, peak_zoom |-> peak_zoom]

CameraInit ==
    /\ camera = None
    /\ camera_ret = CameraCall("none", <<>>, 0)

NewCamera ==
    /\ camera = None
    /\ \E size \in CameraSizes :
          /\ camera' = Some(OrthographicCamera_new(size[1], size[2],
                                                   CameraNear, CameraFar))
          /\ camera_ret' = CameraCall("new", size, 100)
    /\ UNCHANGED <<ecsVars, modelVars, lightVars, rendererVars, materialVars, eventVars, meshVars, sceneVars>>

SetZoom ==
    /\ IsSome(camera)
    /\ \E zoom \in ZoomInputs :
          /\ camera' = Some(OrthographicCamera_set_zoom(Unwrap(camera), zoom))
          /\ camera_ret' = CameraCall("set_zoom", <<zoom>>,
                   F32Max(camera_ret.peak_zoom, OrthographicCamera_zoom(Unwrap(camera'))))
    /\ UNCHANGED <<ecsVars, modelVars, lightVars, rendererVars, materialVars, eventVars, meshVars, sceneVars>>

ResizeCamera ==
    /\ IsSome(camera)
    /\ \E size \in CameraSizes :
          /\ camera' = Some(OrthographicCamera_resize(Unwrap(camera), size[1], size[2]))
          /\ camera_ret' = CameraCall("resize", size, camera_ret.peak_zoom)
    /\ UNCHANGED <<ecsVars, modelVars, lightVars, rendererVars, materialVars, eventVars, meshVars, sceneVars>>

CameraNext ==
    \/ NewCamera
    \/ SetZoom
    \/ ResizeCamera

(***************************************************************************)
(* Textures and Materials (src/rendering/texture.rs, material.rs).         *)
(*                                                                         *)
(* gpu_textures lists the textures the Device created, in creation order;  *)
(* a texture's id is its index.  A texel of Rgba8UnormSrgb is four bytes.  *)
(***************************************************************************)
MaxTextures == 2      \* Texture::from_image calls in one run
MaxMaterials == 2     \* Material::new calls in one run

\* the images a host loads: width, height and the bytes of img.to_rgba8()
ImageInputs ==
    { [width |-> 1, height |-> 1, rgba |-> << <<255, 0, 0, 255>> >>],
      [width |-> 2, height |-> 1,
       rgba |-> << <<255, 255, 255, 255>>, <<0, 0, 255, 128>> >>] }

\* Device::create_texture: a texture nobody has written reads as zeroes
create_texture(label, width, height, format) ==
    [label |-> label, size |-> <<width, height>>, format |-> format,
     texels |-> [i \in 1..(width * height) |-> <<0, 0, 0, 0>>]]

\* Queue::write_texture of a whole image
write_texture(texture, rgba) == [texture EXCEPT !.texels = rgba]

\* the Texture struct: the wgpu texture its view shows, the sampler's filter
Texture(id, size, format, filter) ==
    [texture |-> id, view |-> id, sampler |-> filter, size |-> size,
     format |-> format]

\* Texture::from_image(device, queue, img): create_texture, write_texture
Texture_from_image(img) ==
    /\ Len(gpu_textures) < MaxTextures
    /\ gpu_textures' = Append(gpu_textures,
          write_texture(create_texture("Image", img.width, img.height,
                                       "Rgba8UnormSrgb"),
                        img.rgba))
    /\ material_ret' = [op |-> "from_image",
                        texture |-> Some(Texture(Len(gpu_textures) + 1,
                                                 <<img.width, img.height>>,
                                                 "Rgba8UnormSrgb", "Linear")),
                        camera_bind_group_layout |-> None,
                        model_bind_group_layout |-> None]
    /\ UNCHANGED materials

\* create_white_texture(device): create_texture, create_view,
\* create_sampler; the function has no Queue and writes nothing
create_white_texture == create_texture("White Texture", 1, 1, "Rgba8UnormSrgb")

\* the primitive state of the pipeline Material::new creates
PrimitiveState ==
    [topology |-> "TriangleList", front_face |-> "Ccw", cull_mode |-> Some("Back")]

\* the bind group layouts a host holds and can hand to Material::new: one
\* uniform buffer for the vertex stage, one uniform buffer for the vertex
\* and the fragment stage, and the LightManager's (light.rs: two uniform
\* buffers for the fragment stage)
BindGroupLayoutInputs ==
    { << BindGroupLayoutEntry(0, {"VERTEX"}, "UniformBuffer") >>,
      << BindGroupLayoutEntry(0, {"VERTEX", "FRAGMENT"}, "UniformBuffer") >>,
      << BindGroupLayoutEntry(0, {"FRAGMENT"}, "UniformBuffer"),
         BindGroupLayoutEntry(1, {"FRAGMENT"}, "UniformBuffer") >> }

\* the layout a host makes for its camera uniform
CameraBindGroupLayoutInputs ==
    { << BindGroupLayoutEntry(0, {"VERTEX"}, "UniformBuffer") >> }

\* Material::new(device, name, shader, camera_bind_group_layout,
\* model_bind_group_layout, texture, format): the pipeline layout lists
\* the two layouts of the caller and the material's own; the bind group
\* binds the view and sampler of the given texture, or of a texture made
\* by create_white_texture; the model layout the Material stores is one it
\* creates at the end
Material_new(name, camera_bind_group_layout, model_bind_group_layout, texture) ==
    /\ Len(materials) < MaxMaterials
    /\ LET id == Len(gpu_textures) + 1
           owned_white_texture == Texture(id, <<1, 1>>, "Rgba8UnormSrgb", "Nearest")
           bound == IF IsSome(texture) THEN Unwrap(texture) ELSE owned_white_texture
           material_bind_group_layout ==
               << BindGroupLayoutEntry(0, {"FRAGMENT"}, "Texture"),
                  BindGroupLayoutEntry(1, {"FRAGMENT"}, "Sampler") >>
           pipeline_layout == << camera_bind_group_layout, model_bind_group_layout,
                                 material_bind_group_layout >>
           model_bind_group_layout_owned ==
               << BindGroupLayoutEntry(0, {"VERTEX"}, "UniformBuffer") >>
       IN  /\ gpu_textures' = IF IsSome(texture)
                              THEN gpu_textures
                              ELSE Append(gpu_textures, create_white_texture)
           /\ materials' = Append(materials,
                 [name |-> name,
                  pipeline |-> [layout |-> pipeline_layout, primitive |-> PrimitiveState],
                  bind_group |-> [binding0 |-> bound.view, binding1 |-> bound.sampler],
                  bind_group_layout |-> material_bind_group_layout,
                  model_bind_group_layout |-> model_bind_group_layout_owned])
    /\ material_ret' = [op |-> "Material::new", texture |-> texture,
                        camera_bind_group_layout |-> Some(camera_bind_group_layout),
                        model_bind_group_layout |-> Some(model_bind_group_layout)]

\* Material::get_model_bind_group_layout
Material_get_model_bind_group_layout(material) == material.model_bind_group_layout

\* the Texture values a host holds, one per image it loaded (the Texture
\* made by create_white_texture never leaves Material::new)
LoadedTextures ==
    { Texture(id, gpu_textures[id].size, gpu_textures[id].format, "Linear") :
         id \in { i \in DOMAIN gpu_textures : gpu_textures[i].label = "Image" } }

MaterialInit ==
    /\ gpu_textures = <<>>
    /\ materials = <<>>
    /\ material_ret = [op |-> "none", texture |-> None,
                       camera_bind_group_layout |-> None,
                       model_bind_group_layout |-> None]

TextureFromImage ==
    /\ \E img \in ImageInputs : Texture_from_image(img)
    /\ UNCHANGED <<ecsVars, modelVars, lightVars, rendererVars, cameraVars, eventVars, meshVars, sceneVars>>

NewMaterial ==
    /\ \E name \in {"Sprite", "Ground"},
          camera_bind_group_layout \in CameraBindGroupLayoutInputs,
          model_bind_group_layout \in BindGroupLayoutInputs,
          texture \in {None} \cup {Some(t) : t \in LoadedTextures} :
             Material_new(name, camera_bind_group_layout, model_bind_group_layout,
                          texture)
    /\ UNCHANGED <<ecsVars, modelVars, lightVars, rendererVars, cameraVars, eventVars, meshVars, sceneVars>>

MaterialNext ==
    \/ TextureFromImage
    \/ NewMaterial

(***************************************************************************)
(* Mesh (src/rendering/mesh.rs).  A buffer is modelled by its content: the *)
(* vertex buffer by the vertices, the index buffer by the (0-based)        *)
(* indices.  Coordinates are in hundredths.                                *)
(***************************************************************************)
MaxMeshes == 2        \* Mesh::create_quad calls in one run

\* the widths and heights create_quad is called with; all even, so that
\* the halves are exact
QuadDims == {-200, 0, 100, 200, 400}

\* Vertex::new
Vertex_new(position, normal, tex_coords, color) ==
    [position |-> position, normal |-> normal, tex_coords |-> tex_coords,
     color |-> color]

\* Mesh::new
Mesh_new(name, vertices, indices) ==
    [name |-> name, vertex_buffer |-> vertices, index_buffer |-> indices,
     num_indices |-> Len(indices)]

\* create_quad with the second and third index of each triangle exchanged
Mesh_create_quad_Clockwise(width, height) ==
    LET half_width == F32Div(width, 200)
        half_height == F32Div(height, 200)
        vertices ==
            << Vertex_new(<<0 - half_width, 0 - half_height, 0>>, <<0, 0, 100>>,
                          <<0, 100>>, <<100, 100, 100, 100>>),
               Vertex_new(<<half_width, 0 - half_height, 0>>, <<0, 0, 100>>,
                          <<100, 100>>, <<100, 100, 100, 100>>),
               Vertex_new(<<half_width, half_height, 0>>, <<0, 0, 100>>,
                          <<100, 0>>, <<100, 100, 100, 100>>),
               Vertex_new(<<0 - half_width, half_height, 0>>, <<0, 0, 100>>,
                          <<0, 0>>, <<100, 100, 100, 100>>) >>
        indices == <<0, 2, 1, 2, 0, 3>>
    IN  Mesh_new("Quad", vertices, indices)

\* Mesh::create_quad
Mesh_create_quad(width, height) ==
    LET half_width == F32Div(width, 200)
        half_height == F32Div(height, 200)
        vertices ==
            << Vertex_new(<<0 - half_width, 0 - half_height, 0>>, <<0, 0, 100>>,
                          <<0, 100>>, <<100, 100, 100, 100>>),
               Vertex_new(<<half_width, 0 - half_height, 0>>, <<0, 0, 100>>,
                          <<100, 100>>, <<100, 100, 100, 100>>),
               Vertex_new(<<half_width, half_height, 0>>, <<0, 0, 100>>,
                          <<100, 0>>, <<100, 100, 100, 100>>),
               Vertex_new(<<0 - half_width, half_height, 0>>, <<0, 0, 100>>,
                          <<0, 0>>, <<100, 100, 100, 100>>) >>
        indices == <<0, 1, 2, 2, 3, 0>>
    IN  Mesh_new("Quad", vertices, indices)

\* the triangles a TriangleList draw of the mesh assembles: the positions
\* of each three consecutive indices
Triangles(mesh) ==
    [t \in 1..(mesh.num_indices \div 3) |->
        [k \in 1..3 |-> mesh.vertex_buffer[mesh.index_buffer[3 * (t - 1) + k] + 1].position]]

\* twice the signed area of a triangle seen from +Z: positive when its
\* vertices run counter-clockwise, negative when clockwise
SignedArea2(tri) ==
    (tri[2][1] - tri[1][1]) * (tri[3][2] - tri[1][2])
  - (tri[3][1] - tri[1][1]) * (tri[2][2] - tri[1][2])

\* the face of a triangle seen from +Z under a primitive state, and
\* whether the rasterizer keeps it
Face(tri, primitive) ==
    LET area == SignedArea2(tri)
    IN  IF area = 0 THEN "None"
        ELSE IF (area > 0) = (primitive.front_face = "Ccw") THEN "Front" ELSE "Back"

Rasterized(tri, primitive) ==
    /\ Face(tri, primitive) # "None"
    /\ primitive.cull_mode # Some(Face(tri, primitive))

MeshCall(op, args) == [op |-> op, args |-> args]

MeshInit ==
    /\ meshes = <<>>
    /\ mesh_ret = MeshCall("none", <<0, 0>>)

CreateQuad ==
    /\ Len(meshes) < MaxMeshes
    /\ \E width \in QuadDims, height \in QuadDims :
          /\ meshes' = Append(meshes, Mesh_create_quad(width, height))
          /\ mesh_ret' = MeshCall("create_quad", <<width, height>>)
    /\ UNCHANGED <<ecsVars, modelVars, lightVars, rendererVars, cameraVars, materialVars, eventVars, sceneVars>>

MeshNext ==
    \/ CreateQuad

(***************************************************************************)
(* SceneManager (src/scene/scene_manager.rs).  A scene is its SceneState   *)
(* and the number of update calls it received; its hooks (on_activate,     *)
(* on_pause, ...) are the scene's own code and are taken not to touch the  *)
(* manager or the state.                                                   *)
(***************************************************************************)
MaxSceneUpdates == 2  \* update calls delivered to scenes in one run

SceneNames == {"menu", "game"}

\* the states a scene can be in when the host hands it to add_scene
AddedSceneStates == {"Inactive", "Active"}

\* Scene::set_state
Scene_set_state(scene, state) == [scene EXCEPT !.state = state]

\* Scene::update, as the manager sees it
Scene_update(scene) == [scene EXCEPT !.updates = @ + 1]

\* SceneManager::new
SceneManager_new == [scenes |-> << >>, active_scene |-> None]

\* SceneManager::add_scene: HashMap::insert replaces a scene of that name
SceneManager_add_scene(sm, name, scene) ==
    [manager |-> [sm EXCEPT !.scenes = MapInsert(sm.scenes, name, scene)],
     result |-> TRUE]

\* activate_scene leaving the scene that was active as it is
SceneManager_activate_scene_KeepsPrevious(sm, name) ==
    IF name \in DOMAIN sm.scenes
    THEN [manager |-> [scenes |-> [sm.scenes EXCEPT ![name] = Scene_set_state(@, "Active")],
                       active_scene |-> Some(name)],
          result |-> TRUE]
    ELSE [manager |-> sm, result |-> FALSE]

\* SceneManager::activate_scene
SceneManager_activate_scene(sm, name) ==
    LET previous_active == sm.active_scene
    IN  IF name \in DOMAIN sm.scenes
        THEN LET deactivated ==
                     IF /\ IsSome(previous_active)
                        /\ Unwrap(previous_active) # name
                        /\ Unwrap(previous_active) \in DOMAIN sm.scenes
                     THEN [sm.scenes EXCEPT ![Unwrap(previous_active)] =
                                                Scene_set_state(@, "Inactive")]
                     ELSE sm.scenes
             IN  [manager |-> [scenes |-> [deactivated EXCEPT ![name] =
                                              Scene_set_state(@, "Active")],
                               active_scene |-> Some(name)],
                  result |-> TRUE]
        ELSE [manager |-> sm, result |-> FALSE]

\* SceneManager::pause_active_scene
SceneManager_pause_active_scene(sm) ==
    IF IsSome(sm.active_scene) /\ Unwrap(sm.active_scene) \in DOMAIN sm.scenes
    THEN [manager |-> [sm EXCEPT !.scenes[Unwrap(sm.active_scene)] =
                                     Scene_set_state(@, "Paused")],
          result |-> TRUE]
    ELSE [manager |-> sm, result |-> FALSE]

\* SceneManager::resume_active_scene
SceneManager_resume_active_scene(sm) ==
    IF /\ IsSome(sm.active_scene)
       /\ Unwrap(sm.active_scene) \in DOMAIN sm.scenes
       /\ sm.scenes[Unwrap(sm.active_scene)].state = "Paused"
    THEN [manager |-> [sm EXCEPT !.scenes[Unwrap(sm.active_scene)] =
                                     Scene_set_state(@, "Active")],
          result |-> TRUE]
    ELSE [manager |-> sm, result |-> FALSE]

\* SceneManager::remove_scene
SceneManager_remove_scene(sm, name) ==
    LET active_scene == IF sm.active_scene = Some(name) THEN None ELSE sm.active_scene
    IN  IF name \in DOMAIN sm.scenes
        THEN [manager |-> [scenes |-> MapRemove(sm.scenes, name),
                           active_scene |-> active_scene],
              result |-> TRUE]
        ELSE [manager |-> [sm EXCEPT !.active_scene = active_scene],
              result |-> FALSE]

\* SceneManager::update
SceneManager_update(sm) ==
    IF /\ IsSome(sm.active_scene)
       /\ Unwrap(sm.active_scene) \in DOMAIN sm.scenes
       /\ sm.scenes[Unwrap(sm.active_scene)].state = "Active"
    THEN [manager |-> [sm EXCEPT !.scenes[Unwrap(sm.active_scene)] = Scene_update(@)],
          result |-> TRUE]
    ELSE [manager |-> sm, result |-> FALSE]

\* SceneManager::render: the scene render is called on, if any
SceneManager_render(sm) ==
    IF /\ IsSome(sm.active_scene)
       /\ Unwrap(sm.active_scene) \in DOMAIN sm.scenes
       /\ sm.scenes[Unwrap(sm.active_scene)].state \in {"Active", "Paused"}
    THEN [manager |-> sm, result |-> TRUE]
    ELSE [manager |-> sm, result |-> FALSE]

\* the number of update calls the scenes of the table received
UpdatesDelivered(sm) ==
    LET Sum[names \in SUBSET DOMAIN sm.scenes] ==
            IF names = {} THEN 0
            ELSE LET n == CHOOSE x \in names : TRUE
                 IN  sm.scenes[n].updates + Sum[names \ {n}]
    IN  Sum[DOMAIN sm.scenes]

\* a call, its argument and result, and whether every scene handed to
\* add_scene so far was Inactive
SceneCall(op, name, result, added_inactive) ==
    [op |-> op, name |-> name, result |-> result, added_inactive |-> added_inactive]

SceneInit ==
    /\ scene_manager = SceneManager_new
    /\ scene_ret = SceneCall("new", "", TRUE, TRUE)

\* one call of the SceneManager API
SceneStep(op, name, r, added_inactive) ==
    /\ scene_manager' = r.manager
    /\ scene_ret' = SceneCall(op, name, r.result, added_inactive)

AddScene ==
    /\ \E name \in SceneNames, state \in AddedSceneStates :
          SceneStep("add_scene", name,
                    SceneManager_add_scene(scene_manager, name,
                                           [state |-> state, updates |-> 0]),
                    scene_ret.added_inactive /\ state = "Inactive")
    /\ UNCHANGED <<ecsVars, modelVars, lightVars, rendererVars, cameraVars, materialVars, eventVars, meshVars>>

ActivateScene ==
    /\ \E name \in SceneNames :
          SceneStep("activate_scene", name,
                    SceneManager_activate_scene(scene_manager, name),
                    scene_ret.added_inactive)
    /\ UNCHANGED <<ecsVars, modelVars, lightVars, rendererVars, cameraVars, materialVars, eventVars, meshVars>>

PauseActiveScene ==
    /\ SceneStep("pause_active_scene", "",
                 SceneManager_pause_active_scene(scene_manager),
                 scene_ret.added_inactive)
    /\ UNCHANGED <<ecsVars, modelVars, lightVars, rendererVars, cameraVars, materialVars, eventVars, meshVars>>

ResumeActiveScene ==
    /\ SceneStep("resume_active_scene", "",
                 SceneManager_resume_active_scene(scene_manager),
                 scene_ret.added_inactive)
    /\ UNCHANGED <<ecsVars, modelVars, lightVars, rendererVars, cameraVars, materialVars, eventVars, meshVars>>

RemoveScene ==
    /\ \E name \in SceneNames :
          SceneStep("remove_scene", name,
                    SceneManager_remove_scene(scene_manager, name),
                    scene_ret.added_inactive)
    /\ UNCHANGED <<ecsVars, modelVars, lightVars, rendererVars, cameraVars, materialVars, eventVars, meshVars>>

UpdateScenes ==
    /\ UpdatesDelivered(scene_manager) < MaxSceneUpdates
    /\ SceneStep("update", "", SceneManager_update(scene_manager),
                 scene_ret.added_inactive)
    /\ UNCHANGED <<ecsVars, modelVars, lightVars, rendererVars, cameraVars, materialVars, eventVars, meshVars>>

RenderScenes ==
    /\ SceneStep("render", "", SceneManager_render(scene_manager),
                 scene_ret.added_inactive)
    /\ UNCHANGED <<ecsVars, modelVars, lightVars, rendererVars, cameraVars, materialVars, eventVars, meshVars>>

SceneNext ==
    \/ AddScene
    \/ ActivateScene
    \/ PauseActiveScene
    \/ ResumeActiveScene
    \/ RemoveScene
    \/ UpdateScenes
    \/ RenderScenes

(***************************************************************************)
(* The hosts' event loops (src/main.rs run_with_winit, src/ui/window.rs    *)
(* WindowManager::run).                                                    *)
(*                                                                         *)
(* winit runs the closure once per event.  One iteration of its loop       *)
(* delivers the window events, then MainEventsCleared, then               *)
(* RedrawRequested if a redraw was requested, then RedrawEventsCleared;    *)
(* after that it leaves the loop if the control flow is Exit.              *)
(* ControlFlow::Exit is sticky: once it is set, the closure is handed a    *)
(* scratch control flow and what it writes there is dropped.               *)
(***************************************************************************)
MaxFrameEvents == 2   \* window events delivered in one iteration of the loop

VirtualKeyCodes == {"A", "B"}
ElementStates == {"Pressed", "Released"}
KeyboardInputs ==
    [virtual_keycode : {None} \cup {Some(k) : k \in VirtualKeyCodes},
     state : ElementStates]
MouseButtons == {"Left"}
MouseInputs == [button : MouseButtons, state : ElementStates]
CursorPositions == { <<3, 4>> }
ScrollDeltas == { <<0, 1>> }

\* the errors Surface::get_current_texture can return
SurfaceErrors == {"Lost", "Outdated", "OutOfMemory"}

\* Vec::contains
Contains(v, x) == \E i \in 1..Len(v) : v[i] = x

\* Vec::remove(index)
VecRemove(v, index) == SubSeq(v, 1, index - 1) \o SubSeq(v, index + 1, Len(v))

\* Iterator::position
Position(v, x) ==
    IF Contains(v, x)
    THEN Some(CHOOSE i \in 1..Len(v) : v[i] = x /\ \A j \in 1..(i - 1) : v[j] # x)
    ELSE None

\* KeyboardState::new
KeyboardState_new == [keys_pressed |-> <<>>, keys_released |-> <<>>, keys_down |-> <<>>]

\* KeyboardState::update
KeyboardState_update(k) == [k EXCEPT !.keys_pressed = <<>>, !.keys_released = <<>>]

\* MouseState::new
MouseState_new ==
    [position |-> <<0, 0>>, buttons_pressed |-> <<>>, buttons_released |-> <<>>,
     buttons_down |-> <<>>, scroll_delta |-> <<0, 0>>]

\* MouseState::update
MouseState_update(m) ==
    [m EXCEPT !.buttons_pressed = <<>>, !.buttons_released = <<>>,
              !.scroll_delta = <<0, 0>>]

\* WindowManager::new
WindowManager_new(width, height) ==
    [keyboard_state |-> KeyboardState_new, mouse_state |-> MouseState_new,
     window_size |-> <<width, height>>, should_close |-> FALSE]

\* WindowManager::request_close
WindowManager_request_close(wm) == [wm EXCEPT !.should_close = TRUE]

\* handle_keyboard_input recording every press, repeated or not
handle_keyboard_input_NoDownCheck(wm, input) ==
    IF IsSome(input.virtual_keycode)
    THEN LET key_code == Unwrap(input.virtual_keycode)
             ks == wm.keyboard_state
         IN  IF input.state = "Pressed"
             THEN [wm EXCEPT !.keyboard_state.keys_pressed = Append(ks.keys_pressed, key_code),
                             !.keyboard_state.keys_down = Append(ks.keys_down, key_code)]
             ELSE LET index == Position(ks.keys_down, key_code)
                  IN  [wm EXCEPT !.keyboard_state.keys_down =
                                     IF IsSome(index) THEN VecRemove(ks.keys_down, Unwrap(index))
                                     ELSE ks.keys_down,
                                 !.keyboard_state.keys_released =
                                     Append(ks.keys_released, key_code)]
    ELSE wm

\* WindowManager::handle_keyboard_input
handle_keyboard_input(wm, input) ==
    IF IsSome(input.virtual_keycode)
    THEN LET key_code == Unwrap(input.virtual_keycode)
             ks == wm.keyboard_state
         IN  IF input.state = "Pressed"
             THEN IF ~Contains(ks.keys_down, key_code)
                  THEN [wm EXCEPT !.keyboard_state.keys_pressed = Append(ks.keys_pressed, key_code),
                                  !.keyboard_state.keys_down = Append(ks.keys_down, key_code)]
                  ELSE wm
             ELSE LET index == Position(ks.keys_down, key_code)
                  IN  [wm EXCEPT !.keyboard_state.keys_down =
                                     IF IsSome(index) THEN VecRemove(ks.keys_down, Unwrap(index))
                                     ELSE ks.keys_down,
                                 !.keyboard_state.keys_released =
                                     Append(ks.keys_released, key_code)]
    ELSE wm

\* WindowManager::handle_mouse_input
handle_mouse_input(wm, state, button) ==
    LET ms == wm.mouse_state
    IN  IF state = "Pressed"
        THEN IF ~Contains(ms.buttons_down, button)
             THEN [wm EXCEPT !.mouse_state.buttons_pressed = Append(ms.buttons_pressed, button),
                             !.mouse_state.buttons_down = Append(ms.buttons_down, button)]
             ELSE wm
        ELSE LET index == Position(ms.buttons_down, button)
             IN  [wm EXCEPT !.mouse_state.buttons_down =
                                IF IsSome(index) THEN VecRemove(ms.buttons_down, Unwrap(index))
                                ELSE ms.buttons_down,
                            !.mouse_state.buttons_released =
                                Append(ms.buttons_released, button)]

\* the closure WindowManager::run hands to winit, run for one event: the
\* match, the host's callback (`closes`: it calls request_close), and the
\* end-of-frame update
WindowManager_run(wm, event, arg, closes) ==
    LET matched ==
            IF event = "CloseRequested" THEN [wm EXCEPT !.should_close = TRUE]
            ELSE IF event = "Resized" THEN [wm EXCEPT !.window_size = arg]
            ELSE IF event = "KeyboardInput" THEN handle_keyboard_input(wm, arg)
            ELSE IF event = "CursorMoved" THEN [wm EXCEPT !.mouse_state.position = arg]
            ELSE IF event = "MouseInput" THEN handle_mouse_input(wm, arg.state, arg.button)
            ELSE IF event = "MouseWheel" THEN [wm EXCEPT !.mouse_state.scroll_delta = arg]
            ELSE wm
        written ==
            IF event = "MainEventsCleared" /\ wm.should_close THEN "Exit" ELSE "Poll"
        called == IF closes THEN WindowManager_request_close(matched) ELSE matched
        ended ==
            IF event = "MainEventsCleared"
            THEN [called EXCEPT !.keyboard_state = KeyboardState_update(@),
                                !.mouse_state = MouseState_update(@)]
            ELSE called
    IN  [window_manager |-> ended, control_flow |-> written]

\* the closure of run_with_winit never leaving the loop
run_with_winit_control_flow_AlwaysPoll(event) == "Poll"

\* the control flow the closure of run_with_winit writes for one event
run_with_winit_control_flow(event) ==
    IF event = "CloseRequested" THEN "Exit" ELSE "Poll"

\* what the closure wrote reaches winit's control flow unless that is Exit
EventLoop_control_flow(written) ==
    IF control_flow = "Exit" THEN "Exit" ELSE written

\* the input recorded for an event that is not a KeyboardInput
NoInput == [virtual_keycode |-> None, state |-> "None"]

\* the event delivered last; what the events so far say of the window
\* (close requested) and of the keys (held: pressed and not yet released;
\* went_down: the keys that went from up to down since the last frame end)
Observe(event, arg) ==
    LET key == IF event = "KeyboardInput" THEN arg.virtual_keycode ELSE None
        pressed == IsSome(key) /\ arg.state = "Pressed"
        released == IsSome(key) /\ arg.state = "Released"
    IN  [event |-> event,
         args |-> IF event \in {"Resized", "CursorMoved", "MouseWheel"} THEN arg ELSE <<>>,
         input |-> IF event = "KeyboardInput" THEN arg ELSE NoInput,
         close_requested |-> event_ret.close_requested \/ event = "CloseRequested",
         held |-> IF pressed THEN event_ret.held \cup {Unwrap(key)}
                  ELSE IF released THEN event_ret.held \ {Unwrap(key)}
                  ELSE event_ret.held,
         went_down |-> IF event = "MainEventsCleared" THEN <<>>
                       ELSE IF pressed /\ Unwrap(key) \notin event_ret.held
                       THEN Append(event_ret.went_down, Unwrap(key))
                       ELSE event_ret.went_down]

EventInit ==
    /\ event_loop = [program |-> "none", phase |-> "none", events |-> 0,
                     redraw_requested |-> FALSE]
    /\ control_flow = "Poll"
    /\ window_manager = None
    /\ event_ret = [event |-> "none", args |-> <<>>, input |-> NoInput,
                    close_requested |-> FALSE,
                    held |-> {}, went_down |-> <<>>]

\* winit hands one event to the closure of the running program
Dispatch(event, arg) ==
    /\ event_ret' = Observe(event, arg)
    /\ IF event_loop.program = "run_with_winit"
       THEN /\ control_flow' = EventLoop_control_flow(run_with_winit_control_flow(event))
            /\ IF event = "Resized" THEN Renderer_resize(arg[1], arg[2])
               ELSE IF event = "RedrawRequested" THEN Renderer_render_frame
               ELSE UNCHANGED rendererVars
            /\ UNCHANGED window_manager
       ELSE /\ \E closes \in BOOLEAN :
                  LET r == WindowManager_run(Unwrap(window_manager), event, arg, closes)
                  IN  /\ window_manager' = Some(r.window_manager)
                      /\ control_flow' = EventLoop_control_flow(r.control_flow)
            /\ UNCHANGED rendererVars

\* winit delivers a window event
WindowEvent(event, arg) ==
    /\ event_loop.phase = "events"
    /\ event_loop.events < MaxFrameEvents
    /\ Dispatch(event, arg)
    /\ event_loop' = [event_loop EXCEPT !.events = @ + 1]

\* run_with_winit up to event_loop.run: the window, Renderer::new
RunWithWinit ==
    /\ event_loop.program = "none"
    /\ window_manager = None
    /\ \E w \in Dims \ {0}, h \in Dims \ {0} : Renderer_new(w, h)
    /\ event_loop' = [program |-> "run_with_winit", phase |-> "events", events |-> 0,
                      redraw_requested |-> FALSE]
    /\ event_ret' = Observe("run_with_winit", <<>>)
    /\ UNCHANGED <<control_flow, window_manager>>
    /\ UNCHANGED <<ecsVars, modelVars, lightVars, cameraVars, materialVars, meshVars, sceneVars>>

NewWindowManager ==
    /\ event_loop.program = "none"
    /\ window_manager = None
    /\ \E w \in Dims \ {0}, h \in Dims \ {0} :
          /\ window_manager' = Some(WindowManager_new(w, h))
          /\ event_ret' = Observe("WindowManager::new", <<>>)
    /\ UNCHANGED <<event_loop, control_flow>>
    /\ UNCHANGED <<ecsVars, modelVars, lightVars, rendererVars, cameraVars, materialVars, meshVars, sceneVars>>

\* the host calls request_close before it runs the loop
RequestClose ==
    /\ event_loop.program = "none"
    /\ IsSome(window_manager)
    /\ window_manager' = Some(WindowManager_request_close(Unwrap(window_manager)))
    /\ event_ret' = Observe("request_close", <<>>)
    /\ UNCHANGED <<event_loop, control_flow>>
    /\ UNCHANGED <<ecsVars, modelVars, lightVars, rendererVars, cameraVars, materialVars, meshVars, sceneVars>>

\* WindowManager::run up to event_loop.run
RunWindowManager ==
    /\ event_loop.program = "none"
    /\ IsSome(window_manager)
    /\ event_loop' = [program |-> "WindowManager::run", phase |-> "events", events |-> 0,
                      redraw_requested |-> FALSE]
    /\ event_ret' = Observe("WindowManager::run", <<>>)
    /\ UNCHANGED <<control_flow, window_manager>>
    /\ UNCHANGED <<ecsVars, modelVars, lightVars, rendererVars, cameraVars, materialVars, meshVars, sceneVars>>

CloseRequested ==
    /\ WindowEvent("CloseRequested", <<>>)
    /\ UNCHANGED <<ecsVars, modelVars, lightVars, cameraVars, materialVars, meshVars, sceneVars>>

Resized ==
    /\ \E w \in Dims, h \in Dims : WindowEvent("Resized", <<w, h>>)
    /\ UNCHANGED <<ecsVars, modelVars, lightVars, cameraVars, materialVars, meshVars, sceneVars>>

KeyboardInput ==
    /\ \E input \in KeyboardInputs : WindowEvent("KeyboardInput", input)
    /\ UNCHANGED <<ecsVars, modelVars, lightVars, cameraVars, materialVars, meshVars, sceneVars>>

CursorMoved ==
    /\ \E position \in CursorPositions : WindowEvent("CursorMoved", position)
    /\ UNCHANGED <<ecsVars, modelVars, lightVars, cameraVars, materialVars, meshVars, sceneVars>>

MouseInput ==
    /\ \E input \in MouseInputs : WindowEvent("MouseInput", input)
    /\ UNCHANGED <<ecsVars, modelVars, lightVars, cameraVars, materialVars, meshVars, sceneVars>>

MouseWheel ==
    /\ \E delta \in ScrollDeltas : WindowEvent("MouseWheel", delta)
    /\ UNCHANGED <<ecsVars, modelVars, lightVars, cameraVars, materialVars, meshVars, sceneVars>>

\* the window events of the iteration are over; run_with_winit's closure
\* calls window.request_redraw()
MainEventsCleared ==
    /\ event_loop.phase = "events"
    /\ Dispatch("MainEventsCleared", <<>>)
    /\ event_loop' = [event_loop EXCEPT
                         !.phase = "redraw",
                         !.redraw_requested = (event_loop.program = "run_with_winit")]
    /\ UNCHANGED <<ecsVars, modelVars, lightVars, cameraVars, materialVars, meshVars, sceneVars>>

RedrawRequested ==
    /\ event_loop.phase = "redraw"
    /\ event_loop.redraw_requested
    /\ Dispatch("RedrawRequested", <<>>)
    /\ event_loop' = [event_loop EXCEPT !.redraw_requested = FALSE]
    /\ UNCHANGED <<ecsVars, modelVars, lightVars, cameraVars, materialVars, meshVars, sceneVars>>

\* the iteration ends; winit leaves the loop if the control flow is Exit
RedrawEventsCleared ==
    /\ event_loop.phase = "redraw"
    /\ ~event_loop.redraw_requested
    /\ Dispatch("RedrawEventsCleared", <<>>)
    /\ event_loop' = [event_loop EXCEPT
                         !.phase = IF control_flow' = "Exit" THEN "exited" ELSE "events",
                         !.events = 0]
    /\ UNCHANGED <<ecsVars, modelVars, lightVars, cameraVars, materialVars, meshVars, sceneVars>>

\* the surface of run_with_winit's Renderer starts to fail
SurfaceError ==
    /\ event_loop.program = "run_with_winit"
    /\ event_loop.phase # "exited"
    /\ surface.status = "Good"
    /\ \E e \in SurfaceErrors :
          /\ surface' = [surface EXCEPT !.status = e]
          /\ render_ret' = RenderCall("surface_error", <<e>>, "Ok", "None")
          /\ event_ret' = Observe("SurfaceError", <<>>)
    /\ UNCHANGED <<renderer, gpu_log, encoders>>
    /\ UNCHANGED <<event_loop, control_flow, window_manager>>
    /\ UNCHANGED <<ecsVars, modelVars, lightVars, cameraVars, materialVars, meshVars, sceneVars>>

HostNext ==
    \/ RunWithWinit
    \/ NewWindowManager
    \/ RequestClose
    \/ RunWindowManager
    \/ CloseRequested
    \/ Resized
    \/ KeyboardInput
    \/ CursorMoved
    \/ MouseInput
    \/ MouseWheel
    \/ MainEventsCleared
    \/ RedrawRequested
    \/ RedrawEventsCleared
    \/ SurfaceError

(***************************************************************************)
(* Specifications.  The ECS manager, the Models, the LightManager, the      *)
(* Renderer, the camera, the textures and Materials, the Meshes and the    *)
(* SceneManager share no state, so each is explored under its own          *)
(* next-state relation; the variables of the others keep their initial     *)
(* values.  A host's event loop runs either run_with_winit, which owns a   *)
(* Renderer, or WindowManager::run.                                        *)
(***************************************************************************)
vars ==
    <<ecsVars, modelVars, lightVars, rendererVars, cameraVars, materialVars,
      eventVars, meshVars, sceneVars>>

Init ==
    /\ EcsInit
    /\ ModelsInit
    /\ LightInit
    /\ RendererInit
    /\ CameraInit
    /\ MaterialInit
    /\ EventInit
    /\ MeshInit
    /\ SceneInit

\* the ECS manager driven by a host
Spec == Init /\ [][EcsNext]_vars

\* Models created and updated by a host
ModelSpec == Init /\ [][ModelNext]_vars

\* a LightManager driven by a host
LightSpec == Init /\ [][LightNext]_vars

\* a Renderer driven by a host, on a surface the window system may invalidate
RendererSpec == Init /\ [][RendererNext]_vars

\* an OrthographicCamera driven by a host
CameraSpec == Init /\ [][CameraNext]_vars

\* textures and Materials created by a host
MaterialSpec == Init /\ [][MaterialNext]_vars

\* Meshes created by a host
MeshSpec == Init /\ [][MeshNext]_vars

\* a SceneManager driven by a host
SceneSpec == Init /\ [][SceneNext]_vars

\* a host's event loop driven by winit
HostSpec == Init /\ [][HostNext]_vars

\* the same, winit going on with the iteration as long as the loop runs
HostFairSpec ==
    /\ HostSpec
    /\ WF_vars(MainEventsCleared)
    /\ WF_vars(RedrawRequested)
    /\ WF_vars(RedrawEventsCleared)

(***************************************************************************)
(* Properties.                                                             *)
(***************************************************************************)
HasGravityBody(b) ==
    IsSome(b.transform2d) /\ IsSome(b.physics) /\ Unwrap(b.physics).use_gravity

\* C1: every run_systems(dt) integrates the position with the velocity the
\* physics system produced in the same tick: for an entity with Transform2D
\* position p, Physics velocity v and use_gravity, the tick leaves velocity
\* v + g*dt and position p + (v + g*dt)*dt.
C1_PhysicsBeforeTransform ==
    [][ticks' = ticks + 1 =>
         \A e \in DOMAIN world :
            HasGravityBody(world[e]) =>
               LET p == Unwrap(world[e].transform2d).position
                   v == Unwrap(world[e].physics).velocity
                   dt == ret'.dt
                   v1 == V2Add(v, V2Scale(Gravity, dt))
               IN  /\ Unwrap(world'[e].physics).velocity = v1
                   /\ Unwrap(world'[e].transform2d).position = V2Add(p, V2Scale(v1, dt))
      ]_vars

\* the transform rendering_system hands to the Model of an entity
EntityTransform3D(b) ==
    IF IsSome(b.transform3d)
    THEN Transform3DTo3D(Unwrap(b.transform3d))
    ELSE Transform2DTo3D(Unwrap(b.transform2d))

\* C2: after every run_systems call, the Model of every visible Renderable
\* on an entity with a Transform holds, in its uniform buffer, the model
\* matrix of the entity's current transform converted to 3D.
C2_VisibleModelsSynced ==
    ret.op = "run_systems" =>
        \A e \in DOMAIN world :
            (/\ IsSome(world[e].renderable)
             /\ Unwrap(world[e].renderable).visible
             /\ (IsSome(world[e].transform2d) \/ IsSome(world[e].transform3d)))
            => Unwrap(world[e].renderable).model.model_buffer
                  = Some(ModelUniform(model_matrix(EntityTransform3D(world[e]))))

\* C3: a frame whose image acquisition met a lost or outdated surface is
\* handled inside the Renderer: the surface is configured again at the
\* stored size and the frame retried, so the call leaves a good surface.
C3_LossReconfiguresSurface ==
    (/\ render_ret.op \in {"begin_frame", "render_frame"}
     /\ render_ret.surface_error \in {"Lost", "Outdated"})
    => /\ surface.status = "Good"
       /\ surface.config = Some(Unwrap(renderer).config)
       /\ render_ret.result = "Ok"

LogIndex == 1..Len(gpu_log)

\* C4: an image acquired by begin_frame is never dropped unpresented, and
\* once its encoder went through end_frame it was submitted, then presented.
C4_BeginEndFramePresents ==
    /\ \A k \in LogIndex : gpu_log[k][1] # "discard"
    /\ \A k \in LogIndex :
          gpu_log[k][1] = "submit" =>
             \E j \in LogIndex : j > k /\ gpu_log[j] = <<"present", gpu_log[k][2]>>

\* C5: the uniform buffer of every GPU-backed Model holds the model matrix
\* of the Model's stored transform, after any sequence of update_transform
\* calls.
C5_BufferMirrorsTransform ==
    \A i \in 1..Len(models) :
        IsSome(models[i].model_buffer) =>
            Unwrap(models[i].model_buffer)
               = ModelUniform(model_matrix(models[i].transform))

\* C6: update on an initialized manager writes exactly max_lights records,
\* the stored lights' records in insertion order then all-zero records, and
\* writes the number of stored lights, at most max_lights, to the count
\* buffer.
C6_UpdateWritesAllSlots ==
    (/\ light_gpu.last.op = "update"
     /\ IsSome(Unwrap(light_manager).light_buffer))
    => LET lm == Unwrap(light_manager)
           written == Unwrap(lm.light_buffer).written
           n == LightManager_light_count(lm)
       IN  /\ Len(written) = lm.max_lights
           /\ n <= lm.max_lights
           /\ \A i \in 1..Len(written) :
                 written[i] = IF i <= n THEN get_light_data(lm.lights[i])
                                         ELSE EmptyLightData
           /\ Unwrap(lm.light_buffer).data = written
           /\ Unwrap(lm.light_count_buffer).written = <<n>>
           /\ Unwrap(lm.light_count_buffer).data = <<n>>

C6_Witness ==
    /\ light_gpu.last.op = "update"
    /\ IsSome(light_manager)
    /\ IsSome(Unwrap(light_manager).light_buffer)
    /\ Unwrap(light_manager).max_lights = 2
    /\ Len(Unwrap(light_manager).lights) = 1
    /\ Unwrap(Unwrap(light_manager).light_buffer).written[2] = EmptyLightData

\* C7: light_count() never exceeds max_lights, and add_light on a full
\* manager leaves the stored list as it was.
C7_AddLightCapped ==
    [][/\ IsSome(light_manager) =>
            LightManager_light_count(Unwrap(light_manager))
               <= Unwrap(light_manager).max_lights
       /\ IsSome(light_manager') =>
            LightManager_light_count(Unwrap(light_manager'))
               <= Unwrap(light_manager').max_lights
       /\ (/\ light_gpu'.last.op = "add_light"
           /\ IsSome(light_manager)
           /\ Len(Unwrap(light_manager).lights) = Unwrap(light_manager).max_lights)
          => Unwrap(light_manager').lights = Unwrap(light_manager).lights
      ]_vars

\* an add_light whose light was dropped by a full manager
C7_Witness ==
    /\ light_gpu.last.op = "add_light"
    /\ IsSome(light_manager)
    /\ Unwrap(light_manager).max_lights = 1
    /\ Len(Unwrap(light_manager).lights) = 1
    /\ Unwrap(light_manager).lights[1] # Unwrap(light_gpu.last.light)

\* C8: a handle resolves through get_entity from the create_entity that
\* returned it, across every other call, until destroy_entity is called
\* with it; that call returns true and the handle then resolves to None.
\* The entity a handle resolves to is alive in the world.
C8_EntityLifetime ==
    [][\A h \in UuidSpace :
          /\ (ret'.op = "create_entity" /\ ret'.handle = h) =>
                /\ IsSome(get_entity(h))'
                /\ Unwrap(get_entity(h))' \in DOMAIN world'
          /\ IsSome(get_entity(h)) =>
                /\ Unwrap(get_entity(h)) \in DOMAIN world
                /\ IF ret'.op = "destroy_entity" /\ ret'.handle = h
                   THEN ret'.result = TRUE /\ get_entity(h)' = None
                   ELSE /\ IsSome(get_entity(h))'
                        /\ Unwrap(get_entity(h))' \in DOMAIN world'
      ]_vars

\* an entity was created, survived a tick and another creation, and was
\* then destroyed through its handle
C8_Witness ==
    /\ ret.op = "destroy_entity"
    /\ ret.result = TRUE
    /\ get_entity(ret.handle) = None
    /\ ticks > 0
    /\ next_entity = 2
    /\ Cardinality(DOMAIN entity_map) = 1

\* C9: destroy_entity with a handle the table does not hold (never created,
\* or already destroyed) returns false and changes neither the world nor
\* the handle table.
C9_DestroyUnknown ==
    [][\A h \in UuidSpace :
          (/\ ret'.op = "destroy_entity"
           /\ ret'.handle = h
           /\ get_entity(h) = None)
          => /\ ret'.result = FALSE
             /\ world' = world
             /\ entity_map' = entity_map
      ]_vars

\* a second destroy of a destroyed handle, other entities being alive
C9_Witness ==
    /\ ret.op = "destroy_entity"
    /\ ret.result = FALSE
    /\ Cardinality(DOMAIN world) < next_entity
    /\ DOMAIN entity_map # {}

\* C10: resize with a zero dimension changes neither the stored size, the
\* configuration nor the surface; with two non-zero dimensions it stores
\* them as size and as the configuration's width and height and configures
\* the surface with that configuration.
C10_Resize ==
    [][render_ret'.op = "resize" =>
         LET width == render_ret'.args[1]
             height == render_ret'.args[2]
         IN  IF width = 0 \/ height = 0
             THEN renderer' = renderer /\ surface' = surface
             ELSE /\ Unwrap(renderer').size = <<width, height>>
                  /\ Unwrap(renderer').config.width = width
                  /\ Unwrap(renderer').config.height = height
                  /\ surface'.configures = surface.configures + 1
                  /\ surface'.config = Some(Unwrap(renderer').config)
      ]_vars

\* a zero-sized resize arriving after a resize that took effect
C10_Witness ==
    /\ render_ret.op = "resize"
    /\ render_ret.args[1] = 0
    /\ surface.configures >= 2
    /\ Unwrap(renderer).size = <<2, 1>>


HasInertBody(b) ==
    IsSome(b.transform2d) /\ IsSome(b.physics) /\ ~Unwrap(b.physics).use_gravity

\* C11: for an entity with a Transform2D and a Physics whose use_gravity is
\* false, every run_systems(dt) leaves the Physics component (its velocity
\* included) as it was and sets position to position + velocity*dt and
\* rotation to rotation + angular_velocity*dt.
C11_NoGravityIntegration ==
    [][ret'.op = "run_systems" /\ ticks' = ticks + 1 =>
         \A e \in DOMAIN world :
            HasInertBody(world[e]) =>
               LET transform == Unwrap(world[e].transform2d)
                   physics == Unwrap(world[e].physics)
                   dt == ret'.dt
               IN  /\ e \in DOMAIN world'
                   /\ world'[e].physics = Some(physics)
                   /\ Unwrap(world'[e].transform2d).position
                         = V2Add(transform.position, V2Scale(physics.velocity, dt))
                   /\ Unwrap(world'[e].transform2d).rotation
                         = transform.rotation + physics.angular_velocity * dt
                   /\ Unwrap(world'[e].transform2d).scale = transform.scale
      ]_vars

\* the entity created at position (0,0) with velocity (1,0), angular
\* velocity 1 and no gravity, after run_systems(1): position (1,0)
C11_Witness ==
    /\ ret.op = "run_systems"
    /\ ret.dt = 1
    /\ ticks = 1
    /\ \E e \in DOMAIN world :
          /\ HasInertBody(world[e])
          /\ Unwrap(world[e].transform2d).position = <<100, 0>>
          /\ Unwrap(world[e].transform2d).rotation = 1
          /\ Unwrap(world[e].physics).velocity = <<100, 0>>

\* the components the transform and physics systems work on
Physical(b) == <<b.transform2d, b.transform3d, b.physics>>

\* the world with every Renderable component taken off
StripRenderables(w) == [e \in DOMAIN w |-> [w[e] EXCEPT !.renderable = None]]

\* C12: the rendering-sync system modifies no Transform2D, Transform3D or
\* Physics component, with or without a reachable queue, and the transforms
\* and velocities a run_systems call leaves are those the same call leaves
\* on the same entities without their Renderables, with or without a queue.
C12_SyncIsSideEffect ==
    [][/\ \A q \in RenderQueues : \A e \in DOMAIN world :
             Physical(rendering_system_with_queue(world, q)[e]) = Physical(world[e])
       /\ ret'.op = "run_systems" /\ ticks' = ticks + 1 =>
             /\ DOMAIN world' = DOMAIN world
             /\ \A q \in RenderQueues : \A e \in DOMAIN world :
                   LET dt == ret'.dt
                       bare == rendering_system_with_queue(
                                   physics_system(
                                       transform_system(StripRenderables(world), dt), dt), q)
                   IN  Physical(world'[e]) = Physical(bare[e])
      ]_vars

\* a tick moved an entity that carries a Transform2D, a Physics and a
\* visible Renderable
C12_Witness ==
    /\ ret.op = "run_systems"
    /\ \E e \in DOMAIN world :
          /\ IsSome(world[e].renderable)
          /\ Unwrap(world[e].renderable).visible
          /\ IsSome(world[e].physics)
          /\ IsSome(world[e].transform2d)
          /\ Unwrap(world[e].transform2d).position # <<0, 0>>

HasHiddenRenderable(b) ==
    /\ IsSome(b.renderable)
    /\ ~Unwrap(b.renderable).visible
    /\ (IsSome(b.transform2d) \/ IsSome(b.transform3d))

\* C13: for an entity with a Transform and a Renderable whose visible flag
\* is false, no run_systems call writes the uniform buffer of the
\* Renderable's Model: the sync step leaves the Model, its buffer and its
\* write count as they were, with or without a reachable queue, and so does
\* every run_systems step.
C13_HiddenNotSynced ==
    [][\A e \in DOMAIN world :
          HasHiddenRenderable(world[e]) =>
             /\ \A q \in RenderQueues :
                   rendering_system_with_queue(world, q)[e].renderable
                      = world[e].renderable
             /\ ret'.op = "run_systems" /\ ticks' = ticks + 1 =>
                   /\ e \in DOMAIN world'
                   /\ world'[e].renderable = world[e].renderable
                   /\ Unwrap(world'[e].renderable).model.buffer_writes = 0
      ]_vars

\* two ticks have run over an entity with a Transform3D and a hidden
\* Renderable whose Model was built at another transform
C13_Witness ==
    /\ ret.op = "run_systems"
    /\ ticks = 2
    /\ \E e \in DOMAIN world :
          /\ HasHiddenRenderable(world[e])
          /\ IsSome(world[e].transform3d)
          /\ Unwrap(world[e].renderable).model.buffer_writes = 0
          /\ Unwrap(world[e].renderable).model.model_buffer
                # Some(ModelUniform(model_matrix(EntityTransform3D(world[e]))))

\* C14: the buffer of a GPU-backed Model decodes, as the column-major 4x4
\* matrix the shader reads, to the model matrix of the transform given at
\* construction until the first update_transform, and right after
\* update_transform(T) to T.model_matrix().
C14_BufferRoundTrip ==
    [][/\ \A i \in 1..Len(models') :
             (IsSome(models'[i].model_buffer) /\ models'[i].buffer_writes = 0) =>
                ModelUniform_decode(Unwrap(models'[i].model_buffer))
                   = model_matrix(models'[i].transform)
       /\ model_ret'.op \in {"new", "new_with_device"} =>
             models'[model_ret'.index].transform = model_ret'.transform
       /\ (/\ model_ret'.op = "update_transform"
           /\ IsSome(models[model_ret'.index].model_buffer))
          => /\ IsSome(models'[model_ret'.index].model_buffer)
             /\ ModelUniform_decode(Unwrap(models'[model_ret'.index].model_buffer))
                   = model_matrix(model_ret'.transform)
      ]_vars

\* a GPU-backed Model given a rotated, scaled transform other than the one
\* it was constructed with
C14_Witness ==
    /\ model_ret.op = "update_transform"
    /\ model_ret.transform.rotation = 1
    /\ IsSome(models[model_ret.index].model_buffer)
    /\ models[model_ret.index].transform # model_ret.transform
    /\ ModelUniform_decode(Unwrap(models[model_ret.index].model_buffer))
          = model_matrix(model_ret.transform)
    /\ Unwrap(models[model_ret.index].model_buffer)[2] = 200

\* C15: update_transform changes nothing but the uniform buffer of the
\* Model it is called on: the Mesh and Material values behind the Arcs,
\* every other Model (its buffer included) and the Model's own mesh,
\* material and transform are as before; and a call repeating the previous
\* call's Model and transform leaves the buffer content as that call left it.
C15_UpdateTransformFrame ==
    [][model_ret'.op = "update_transform" =>
         LET i == model_ret'.index
         IN  /\ arcs' = arcs
             /\ Len(models') = Len(models)
             /\ \A j \in 1..Len(models) : j # i => models'[j] = models[j]
             /\ models'[i].mesh = models[i].mesh
             /\ models'[i].material = models[i].material
             /\ models'[i].transform = models[i].transform
             /\ IsSome(models'[i].model_buffer) = IsSome(models[i].model_buffer)
             /\ (/\ model_ret.op = "update_transform"
                 /\ model_ret.index = i
                 /\ model_ret.transform = model_ret'.transform)
                => models'[i].model_buffer = models[i].model_buffer
      ]_vars

\* the same update_transform made twice on one of two GPU-backed Models
\* that share their Mesh and Material
C15_Witness ==
    /\ model_ret.op = "update_transform"
    /\ Len(models) = 2
    /\ models[1].buffer_writes = 2
    /\ models[2].buffer_writes = 0
    /\ IsSome(models[2].model_buffer)
    /\ models[1].mesh = models[2].mesh
    /\ models[1].material = models[2].material
    /\ Unwrap(models[1].model_buffer) = ModelUniform(model_matrix(model_ret.transform))
    /\ models[1].model_buffer # models[2].model_buffer

\* the number of write_buffer calls made on an Option<Buffer>
BufferWrites(buffer) == IF IsSome(buffer) THEN Unwrap(buffer).writes ELSE 0

\* C16: every update call, in every state of the manager (before or after
\* initialize), rewrites the light buffer and the light-count buffer: both
\* exist after the call and each has received one write_buffer.
C16_UpdateRewritesBoth ==
    [][light_gpu'.last.op = "update" =>
         LET lm == Unwrap(light_manager)
             lm1 == Unwrap(light_manager')
         IN  /\ IsSome(lm1.light_buffer)
             /\ IsSome(lm1.light_count_buffer)
             /\ BufferWrites(lm1.light_buffer) = BufferWrites(lm.light_buffer) + 1
             /\ BufferWrites(lm1.light_count_buffer)
                   = BufferWrites(lm.light_count_buffer) + 1
      ]_vars

\* C16, amended: the two buffers exist together or not at all; an update
\* call on an initialized manager makes one write_buffer on each of the two
\* buffers, and an update call before initialize changes nothing, so no
\* update call rewrites exactly one of the two.
C16_UpdateRewritesBothOnceInitialized ==
    [][/\ IsSome(light_manager') =>
             (IsSome(Unwrap(light_manager').light_buffer)
                 <=> IsSome(Unwrap(light_manager').light_count_buffer))
       /\ light_gpu'.last.op = "update" =>
             LET lm == Unwrap(light_manager)
                 lm1 == Unwrap(light_manager')
             IN  IF IsSome(lm.light_buffer)
                 THEN /\ IsSome(lm1.light_buffer) /\ IsSome(lm1.light_count_buffer)
                      /\ Unwrap(lm1.light_buffer).id = Unwrap(lm.light_buffer).id
                      /\ Unwrap(lm1.light_count_buffer).id
                            = Unwrap(lm.light_count_buffer).id
                      /\ BufferWrites(lm1.light_buffer)
                            = BufferWrites(lm.light_buffer) + 1
                      /\ BufferWrites(lm1.light_count_buffer)
                            = BufferWrites(lm.light_count_buffer) + 1
                 ELSE lm1 = lm
      ]_vars

\* a second update on an initialized manager holding a light
C16_Witness ==
    /\ light_gpu.last.op = "update"
    /\ IsSome(light_manager)
    /\ Len(Unwrap(light_manager).lights) = 1
    /\ BufferWrites(Unwrap(light_manager).light_buffer) = 2
    /\ BufferWrites(Unwrap(light_manager).light_count_buffer) = 2

\* C17: the light buffer, count buffer, bind group layout and bind group
\* are allocated once: an initialize call on an initialized manager
\* allocates no GPU object and leaves the buffers, the layout and the bind
\* group of the first call in place.
C17_InitializeOnce ==
    [][/\ light_gpu'.objects <= 4
       /\ (/\ light_gpu'.last.op = "initialize"
           /\ IsSome(Unwrap(light_manager).light_buffer))
          => LET lm == Unwrap(light_manager)
                 lm1 == Unwrap(light_manager')
             IN  /\ light_gpu'.objects = light_gpu.objects
                 /\ lm1.light_buffer = lm.light_buffer
                 /\ lm1.light_count_buffer = lm.light_count_buffer
                 /\ lm1.light_bind_group_layout = lm.light_bind_group_layout
                 /\ lm1.light_bind_group = lm.light_bind_group
      ]_vars

\* C18: resize(width, height) leaves the zoom as it was, and the projection
\* computed after it has left/right = -/+ (width/2)/zoom and
\* bottom/top = -/+ (height/2)/zoom for the zoom in force.
C18_ResizeKeepsZoomScaling ==
    [][camera_ret'.op = "resize" =>
         LET c == Unwrap(camera')
             p == projection_matrix(c)
             half_width == F32Div(camera_ret'.args[1], 200)
             half_height == F32Div(camera_ret'.args[2], 200)
         IN  /\ c.zoom = Unwrap(camera).zoom
             /\ p.left = 0 - F32Div(half_width, c.zoom)
             /\ p.right = F32Div(half_width, c.zoom)
             /\ p.bottom = 0 - F32Div(half_height, c.zoom)
             /\ p.top = F32Div(half_height, c.zoom)
      ]_vars

C20_WhiteTextureSubstituted ==
    (material_ret.op = "Material::new" /\ material_ret.texture = None) =>
       LET material == materials[Len(materials)]
           bound == gpu_textures[material.bind_group.binding0]
       IN  /\ bound.size = <<1, 1>>
           /\ bound.texels = << <<255, 255, 255, 255>> >>

\* the surface is out of memory and the Renderer has just reconfigured it
ReconfiguredWhileFailing ==
    /\ surface.status = "OutOfMemory"
    /\ render_ret.op = "resize"
    /\ render_ret.args[1] > 0 /\ render_ret.args[2] > 0

\* C21: a fatal GPU error ends the frame loop: when frame acquisition still
\* fails after the surface was reconfigured, run_with_winit's loop exits
\* at some later point instead of failing in render_frame on every frame
\* for ever.
C21_FatalErrorEndsLoop == ReconfiguredWhileFailing ~> (event_loop.phase = "exited")

\* C22: a window-close request ends the frame loop, in run_with_winit and
\* in WindowManager::run: once CloseRequested was delivered, the control
\* flow is Exit after the next MainEventsCleared at the latest; a control
\* flow of Exit stays Exit whatever the closure writes; and the iteration
\* that ends with Exit leaves the loop.
C22_CloseRequestEndsLoop ==
    [][/\ (event_ret.close_requested /\ event_ret'.event = "MainEventsCleared"
              => control_flow' = "Exit")
       /\ (control_flow = "Exit" => control_flow' = "Exit")
       /\ (control_flow = "Exit" /\ event_ret'.event = "RedrawEventsCleared"
              => event_loop'.phase = "exited")]_vars

\* WindowManager::run was asked to close, set Exit at MainEventsCleared and
\* has left the loop
C22_Witness ==
    /\ event_loop.program = "WindowManager::run"
    /\ event_ret.close_requested
    /\ control_flow = "Exit"
    /\ event_loop.phase = "exited"

\* C23: render_frame clears to the stored colour, submits and presents, in
\* that order and in one call; the stored colour is the construction
\* default until set_clear_color replaces it, which changes nothing else,
\* and no other call changes it; a render_frame that cannot acquire the
\* image returns the error and submits and presents nothing.
C23_RenderFrameClearsSubmitsPresents ==
    [][/\ (render_ret'.op = "new" => Unwrap(renderer').clear_color = DefaultClearColor)
       /\ (render_ret'.op = "set_clear_color"
              => /\ renderer' = Some([Unwrap(renderer) EXCEPT
                                          !.clear_color = render_ret'.args])
                 /\ UNCHANGED <<surface, gpu_log, encoders>>)
       /\ (IsSome(renderer) /\ render_ret'.op # "set_clear_color"
              => Unwrap(renderer').clear_color = Unwrap(renderer).clear_color)
       /\ (render_ret'.op = "render_frame" /\ render_ret'.result = "Ok"
              => LET image == Acquired + 1
                 IN  gpu_log' = gpu_log \o
                        << <<"acquire", image>>, <<"create_view", image>>,
                           <<"create_encoder", image>>,
                           <<"clear", image, Unwrap(renderer).clear_color>>,
                           <<"submit", image>>, <<"present", image>> >>)
       /\ (render_ret'.op = "render_frame" /\ surface.status # "Good"
              => /\ render_ret'.result = "Err"
                 /\ render_ret'.surface_error = surface.status
                 /\ UNCHANGED <<renderer, surface, gpu_log, encoders>>)]_vars

\* a frame was rendered with a colour given to set_clear_color, and a later
\* render_frame failed
C23_Witness ==
    /\ render_ret.op = "render_frame"
    /\ render_ret.result = "Err"
    /\ \E k \in 1..Len(gpu_log) :
          /\ gpu_log[k][1] = "clear"
          /\ gpu_log[k][3] # DefaultClearColor
          /\ gpu_log[k][3] = Unwrap(renderer).clear_color

\* the Mesh the last create_quad call made
LastQuad == meshes[Len(meshes)]

\* the four corners create_quad(w, h) is to produce, in vertex order
QuadCorners(w, h) ==
    LET hw == F32Div(w, 200)
        hh == F32Div(h, 200)
    IN  << <<0 - hw, 0 - hh, 0>>, <<hw, 0 - hh, 0>>, <<hw, hh, 0>>, <<0 - hw, hh, 0>> >>

\* 4 vertices at the corners, every normal +Z, 6 indices
QuadShape(mesh, w, h) ==
    /\ Len(mesh.vertex_buffer) = 4
    /\ Len(mesh.index_buffer) = 6
    /\ mesh.num_indices = 6
    /\ \A i \in 1..4 :
          /\ mesh.vertex_buffer[i].position = QuadCorners(w, h)[i]
          /\ mesh.vertex_buffer[i].normal = <<0, 0, 100>>

\* two counter-clockwise triangles over the corners that share one diagonal
\* and whose areas add up to the rectangle's, each kept as a front face by
\* the Material pipeline
QuadFrontFacing(mesh, w, h) ==
    LET tris == Triangles(mesh)
        corners == {QuadCorners(w, h)[i] : i \in 1..4}
        points(t) == {tris[t][k] : k \in 1..3}
    IN  /\ Len(tris) = 2
        /\ \A t \in 1..2 :
              /\ SignedArea2(tris[t]) > 0
              /\ Face(tris[t], PrimitiveState) = "Front"
              /\ Rasterized(tris[t], PrimitiveState)
        /\ points(1) \cup points(2) = corners
        /\ Cardinality(corners) = 4
        /\ Cardinality(points(1) \cap points(2)) = 2
        /\ SignedArea2(tris[1]) + SignedArea2(tris[2])
              = 2 * (2 * F32Div(w, 200)) * (2 * F32Div(h, 200))

\* C25 as claimed: for every w and h, create_quad(w, h) makes 4 vertices at
\* the corners (-w/2,-h/2,0), (w/2,-h/2,0), (w/2,h/2,0), (-w/2,h/2,0) with
\* normal +Z and 6 indices forming two counter-clockwise triangles that
\* cover the rectangle and are front faces of the Material pipeline.
C25_QuadFrontFacingAlways ==
    mesh_ret.op = "create_quad" =>
        /\ QuadShape(LastQuad, mesh_ret.args[1], mesh_ret.args[2])
        /\ QuadFrontFacing(LastQuad, mesh_ret.args[1], mesh_ret.args[2])

\* C25, amended: the vertices, normals and index count are as claimed for
\* every w and h; the two triangles are counter-clockwise, cover the
\* rectangle and are front faces when w/2 and h/2 are both positive or both
\* negative.
C25_QuadFrontFacingSameSign ==
    mesh_ret.op = "create_quad" =>
        LET w == mesh_ret.args[1]
            h == mesh_ret.args[2]
            hw == F32Div(w, 200)
            hh == F32Div(h, 200)
        IN  /\ QuadShape(LastQuad, w, h)
            /\ ((hw > 0 /\ hh > 0) \/ (hw < 0 /\ hh < 0))
                  => QuadFrontFacing(LastQuad, w, h)

\* a quad of positive width and height, and one of negative width and
\* height, were made
C25_Witness ==
    /\ Len(meshes) = 2
    /\ mesh_ret = MeshCall("create_quad", <<-200, -200>>)
    /\ meshes[1] = Mesh_create_quad(400, 200)
    /\ QuadFrontFacing(meshes[1], 400, 200)

\* C26: the quad's UV origin is at the bottom-left: the vertex at
\* (-w/2,-h/2) carries (0,0), the one at (w/2,-h/2) carries (1,0), the one
\* at (w/2,h/2) carries (1,1) and the one at (-w/2,h/2) carries (0,1).
C26_UvOriginBottomLeft ==
    mesh_ret.op = "create_quad" =>
        LET corners == QuadCorners(mesh_ret.args[1], mesh_ret.args[2])
            uv == << <<0, 0>>, <<100, 0>>, <<100, 100>>, <<0, 100>> >>
        IN  \A i \in 1..4 :
                \E v \in 1..Len(LastQuad.vertex_buffer) :
                    /\ LastQuad.vertex_buffer[v].position = corners[i]
                    /\ LastQuad.vertex_buffer[v].tex_coords = uv[i]

\* C27: for every Material and every GPU-backed Model, group 1 of the
\* Material's pipeline, the layout get_model_bind_group_layout returns and
\* the layout of the Model's bind group are the same single entry (binding
\* 0, uniform buffer, vertex stage); the pipeline's groups are 0 = camera,
\* 1 = per-model, 2 = material; whatever model layout Material::new was
\* given.
C27_ModelLayoutsAgree ==
    LET entry == << BindGroupLayoutEntry(0, {"VERTEX"}, "UniformBuffer") >>
    IN  \A i \in 1..Len(materials), a \in ModelArgs :
            LET material == materials[i]
                model == Model_new_with_device(a[1], a[2], a[3])
            IN  /\ Len(material.pipeline.layout) = 3
                /\ material.pipeline.layout[2] = entry
                /\ Material_get_model_bind_group_layout(material) = entry
                /\ Unwrap(model.model_bind_group).layout = entry
                /\ material.pipeline.layout[3] = material.bind_group_layout
                /\ (i = Len(materials) /\ material_ret.op = "Material::new")
                      => material.pipeline.layout[1]
                            = Unwrap(material_ret.camera_bind_group_layout)

\* active_scene, when set, names a scene of the table, and every scene
\* that is Active or Paused is the one active_scene names
ActiveSceneIsTheOnlyOne(sm) ==
    /\ IsSome(sm.active_scene) => Unwrap(sm.active_scene) \in DOMAIN sm.scenes
    /\ \A n \in DOMAIN sm.scenes :
          sm.scenes[n].state \in {"Active", "Paused"} => sm.active_scene = Some(n)

\* C29: as long as every scene handed to add_scene was Inactive, after
\* every call of the SceneManager: active_scene, when set, names a scene of
\* the table; every scene that is Active or Paused is the one named by
\* active_scene; and a scene receives update(dt) only in an update call,
\* only if active_scene names it and only while its state is Active.
C29_OneActiveScene ==
    [][scene_ret'.added_inactive =>
          /\ ActiveSceneIsTheOnlyOne(scene_manager)
          /\ ActiveSceneIsTheOnlyOne(scene_manager')
          /\ scene_ret'.op # "add_scene" =>
                \A n \in DOMAIN scene_manager.scenes \cap DOMAIN scene_manager'.scenes :
                    scene_manager'.scenes[n].updates # scene_manager.scenes[n].updates
                    => /\ scene_ret'.op = "update"
                       /\ scene_manager.active_scene = Some(n)
                       /\ scene_manager.scenes[n].state = "Active"
                       /\ scene_manager'.scenes[n].updates
                             = scene_manager.scenes[n].updates + 1
      ]_vars

\* two scenes added Inactive; one was activated and updated and is now
\* paused, and an update call has just left it alone; the other was never
\* updated
C29_Witness ==
    /\ scene_ret = SceneCall("update", "", FALSE, TRUE)
    /\ DOMAIN scene_manager.scenes = SceneNames
    /\ scene_manager.active_scene = Some("game")
    /\ scene_manager.scenes["game"] = [state |-> "Paused", updates |-> 1]
    /\ scene_manager.scenes["menu"] = [state |-> "Inactive", updates |-> 0]

\* C28: in every state of a Renderer, size() is (config.width,
\* config.height) and the surface was configured last with that
\* configuration; the size is the window size given to Renderer::new until
\* a resize call with two non-zero dimensions, it is then the arguments of
\* that call, and no other call (a resize with a zero dimension,
\* set_clear_color, begin_frame, end_frame, render_frame) changes it.
C28_SizeIsLastConfiguration ==
    [][IsSome(renderer') =>
          /\ Renderer_size' = <<Unwrap(renderer').config.width,
                                Unwrap(renderer').config.height>>
          /\ surface'.config = Some(Unwrap(renderer').config)
          /\ IF \/ render_ret'.op = "new"
                \/ /\ render_ret'.op = "resize"
                   /\ render_ret'.args[1] > 0
                   /\ render_ret'.args[2] > 0
             THEN Renderer_size' = render_ret'.args
             ELSE Renderer_size' = Renderer_size
      ]_vars

\* a resize with a zero dimension was refused after a resize that changed
\* the size, and a frame was rendered in between
C28_Witness ==
    /\ render_ret.op = "resize"
    /\ render_ret.args[1] = 0
    /\ surface.configures = 2
    /\ Renderer_size = <<2, 1>>
    /\ Acquired > 0

\* C30: in WindowManager's keyboard state, after any press, repeated press
\* and release events and frame ends: keys_down holds a key at most once,
\* and holds exactly the keys pressed and not yet released; keys_pressed
\* lists exactly the changes from up to down of the current frame (a press
\* of a key that is down adds nothing); and keys_pressed and keys_released
\* are empty from the end of a frame until the next frame's first event.
C30_KeyboardState ==
    IsSome(window_manager) =>
        LET ks == Unwrap(window_manager).keyboard_state
        IN  /\ \A i, j \in 1..Len(ks.keys_down) :
                  ks.keys_down[i] = ks.keys_down[j] => i = j
            /\ {ks.keys_down[i] : i \in 1..Len(ks.keys_down)} = event_ret.held
            /\ ks.keys_pressed = event_ret.went_down
            /\ (event_loop.phase # "events" \/ event_loop.events = 0)
                  => ks.keys_pressed = <<>> /\ ks.keys_released = <<>>

\* key A, pressed in an earlier frame and still down, has just been pressed
\* again: it is down once and not reported as pressed
C30_Witness ==
    /\ event_loop.program = "WindowManager::run"
    /\ event_ret.event = "KeyboardInput"
    /\ event_ret.input = [virtual_keycode |-> Some("A"), state |-> "Pressed"]
    /\ Unwrap(window_manager).keyboard_state.keys_down = <<"A">>
    /\ Unwrap(window_manager).keyboard_state.keys_pressed = <<>>
    /\ event_loop.events = 1
====
